---- MODULE Spec2Model ----
(***************************************************************************)
(* Model of the synchronisation and encryption engine of risu-cli:         *)
(* the Repository actor (src/src/db.rs), the SyncManager pull/push         *)
(* protocol (src/src/sync.rs), the crypto primitives (src/src/crypto.rs)   *)
(* and the controller's unlock / account-check / logout paths              *)
(* (src/src/main.rs).                                                      *)
(*                                                                         *)
(* Timestamps.  updated_at, the cursor and the server time are RFC3339     *)
(* strings which the code never parses: Rust compares them with String's   *)
(* Ord (sync.rs:462) and SQLite with its BINARY collation (db.rs:507).     *)
(* Both are the byte-wise order, which on equally formatted UTC stamps is  *)
(* the order of the instants.  A timestamp is modelled as a natural        *)
(* number and the byte-wise order as the order of the naturals; 0 is the   *)
(* default cursor "1970-01-01T00:00:00Z".                                  *)
(*                                                                         *)
(* Options.  Rust's Option<T> is a sequence of length at most one.         *)
(***************************************************************************)
EXTENDS Integers, Sequences, FiniteSets, TLC

VARIABLES
    notes,           \* table notes: a function from the ids present to rows
    kv,              \* table kv_store: a function from the keys present to values
    rx,              \* Repo actor: the queue of DbRequest not yet executed
    reply,           \* Repo actor: the replies sent so far, oldest first
    pre,             \* history: the two tables before the last transactional write
    crypto_key,      \* KeyStore: Arc<Mutex<Option<key>>>
    passphrase_file, \* $HOME/.risu/passphrase: Option<passphrase>
    token,           \* config::get_token(): "" when no token file exists
    srv,             \* the account as /auth/me reports it
    sm,              \* SyncManager: where its task stands, and its locals
    trigger,         \* number of triggers waiting in the trigger channel (capacity 1)
    emitted,         \* status events sent by the current sync attempt, oldest first
    now,             \* the clock: the latest instant Utc::now() has returned
    ui_pc,           \* the UI task: "idle" between two messages, or inside a handler
    e2e_status,      \* Model::e2e_status
    sent,            \* history: the body of the last POST /sync/push, if any
    acked,           \* history: the versions of notes a POST /sync/push answered 200 for
    ul,              \* the spawned unlock task (unlock_process and its report)
    ui_me,           \* perform_account_check: the reply of GET /auth/me it works on
    inbox,           \* status_rx: the statuses of unlock tasks the controller has not read yet
    answer,          \* history: the outcome of the last POST /sync/push
    http,            \* one call of authenticated_request: its locals and what it sent
    refresh_token,   \* the refresh_token of the token file, "" when there is none
    pulls,           \* history: the GET /sync/pull requests the current pull has sent
    pulled,          \* history: the notes table when the current pull began, and the
                     \* changes its pages have delivered
    e2e,             \* the E2E setup submitted in the E2ESetup pane: its locals
    login,           \* the login of the Login pane: active_pane, polling_login,
                     \* login_session, and the history of its /auth/poll requests
    cmds,            \* history: what the last save_current_note or
                     \* perform_clear_all_data of the controller asked for; in
                     \* SpecActor the DbRequests in the order they were sent
    cx,              \* a caller of crypto::encrypt and crypto::decrypt: its content,
                     \* key and payload, and what decrypt returned
    cfg              \* $HOME/.risu/config.toml and config.toml.bak, and what the
                     \* last call of config.rs returned

vars == <<notes, kv, rx, reply, pre, crypto_key, passphrase_file, token, srv,
          sm, trigger, emitted, now, ui_pc, e2e_status, sent, acked,
          ul, ui_me, inbox, answer, http, refresh_token, pulls, pulled, e2e,
          login, cmds, cx, cfg>>

----------------------------------------------------------------------------
(* Bounds of the model *)

MaxTime == 2         \* timestamps are 0..MaxTime
MaxBatch == 2        \* longest batch handed to PullUpsertNotes, longest page of /sync/pull
MaxPages == 2        \* pages the server offers in one pull before it says has_more = false
MaxNonce == 1        \* nonces are 1..MaxNonce
MaxInbox == 1        \* statuses of unlock tasks status_rx holds before a sender has to wait

\* Login sessions the user starts, and /auth/poll requests the program sends
MaxSessions == 2
MaxPolls == 3

\* Requests the Repo actor executes in SpecNotes
MaxRequests == 3
MaxChars == 2        \* the strings handed to encrypt have at most MaxChars code points

\* mpsc::channel(10): the events status_rx holds before status_tx.send waits
STATUS_CAPACITY == 10

NoteIds == {"n1", "n2"}
Times == 1..MaxTime

None == <<>>
Some(x) == <<x>>
IsSome(o) == o # <<>>
Unwrap(o) == o[1]

----------------------------------------------------------------------------
(* Repository: rows and tables (db.rs) *)

\* struct Note, as a row of the table (the id is the key of the function)
Row(content, updated_at, is_deleted, is_synced, is_encrypted) ==
    [content |-> content, updated_at |-> updated_at, is_deleted |-> is_deleted,
     is_synced |-> is_synced, is_encrypted |-> is_encrypted]

\* struct Note, as it travels in a request or on the wire
Note(id, content, updated_at, is_deleted, is_synced, is_encrypted) ==
    [id |-> id, content |-> content, updated_at |-> updated_at,
     is_deleted |-> is_deleted, is_synced |-> is_synced, is_encrypted |-> is_encrypted]

EmptyTable == [x \in {} |-> 0]

Put(tbl, key, val) ==
    [x \in (DOMAIN tbl) \cup {key} |-> IF x = key THEN val ELSE tbl[x]]

Remove(tbl, key) == [x \in (DOMAIN tbl) \ {key} |-> tbl[x]]

\* get_kv: Ok(Some(value)) or Ok(None) when no row has the key
get_kv(kvt, key) == IF key \in DOMAIN kvt THEN Some(kvt[key]) ELSE None

\* set_kv: INSERT OR REPLACE INTO kv_store
set_kv(kvt, key, value) == Put(kvt, key, value)

\* delete_kv: DELETE FROM kv_store WHERE key = ?1
delete_kv(kvt, key) == Remove(kvt, key)

\* get_cursor: last_synced_at, or the epoch when the row is missing
get_cursor(kvt) ==
    IF IsSome(get_kv(kvt, "last_synced_at")) THEN Unwrap(get_kv(kvt, "last_synced_at")) ELSE 0

\* The comparison below without strictness: an incoming note that is not older wins.
UpsertWinsNonStrict(incoming_ts, existing_ts) == incoming_ts >= existing_ts

\* WHERE excluded.updated_at > notes.updated_at
UpsertWins(incoming_ts, existing_ts) == incoming_ts > existing_ts

\* A variant of the statement that removes the row when a newer tombstone arrives.
UpsertStmtHardDelete(tbl, n) ==
    IF n.id \notin DOMAIN tbl
    THEN Put(tbl, n.id, Row(n.content, n.updated_at, n.is_deleted, 1, n.is_encrypted))
    ELSE IF UpsertWins(n.updated_at, tbl[n.id].updated_at)
         THEN IF n.is_deleted = 1
              THEN Remove(tbl, n.id)
              ELSE Put(tbl, n.id, Row(n.content, n.updated_at, n.is_deleted, 1, n.is_encrypted))
         ELSE tbl

\* One statement of pull_upsert_notes:
\* INSERT ... VALUES (id, content, updated_at, is_deleted, 1, is_encrypted)
\* ON CONFLICT(id) DO UPDATE SET ... is_synced = 1 ... WHERE excluded.updated_at > notes.updated_at
UpsertStmt(tbl, n) ==
    IF n.id \notin DOMAIN tbl
    THEN Put(tbl, n.id, Row(n.content, n.updated_at, n.is_deleted, 1, n.is_encrypted))
    ELSE IF UpsertWins(n.updated_at, tbl[n.id].updated_at)
         THEN Put(tbl, n.id, Row(n.content, n.updated_at, n.is_deleted, 1, n.is_encrypted))
         ELSE tbl

\* The working copy of the transaction after its first `upto` statements: the
\* statements 1..Len(batch) are the upserts, statement Len(batch)+1 writes the cursor.
RECURSIVE TxWork(_, _, _, _)
TxWork(db, batch, cursor, upto) ==
    IF upto = 0 THEN db
    ELSE LET before == TxWork(db, batch, cursor, upto - 1)
         IN  IF upto <= Len(batch)
             THEN [before EXCEPT !.notes = UpsertStmt(before.notes, batch[upto])]
             ELSE [before EXCEPT !.kv = set_kv(before.kv, "last_synced_at", cursor)]

\* A transaction that is never committed leaves its statements in the database.
RollbackKeepsWork(db, work) == work

\* `tx` is dropped without commit (an early return through `?`, or the process
\* dies): rusqlite and SQLite roll the transaction back.
Rollback(db, work) == db

\* pull_upsert_notes(notes, cursor).  failAt = 0: every statement and the commit
\* succeed.  failAt = k > 0: statement k fails (k = Len(batch)+2: the commit fails,
\* or the process stops before it), after the statements before it ran.
pull_upsert_notes(db, batch, cursor, failAt) ==
    IF failAt = 0
    THEN [db |-> TxWork(db, batch, cursor, Len(batch) + 1), ok |-> TRUE]
    ELSE [db |-> Rollback(db, TxWork(db, batch, cursor, failAt - 1)), ok |-> FALSE]

----------------------------------------------------------------------------
(* Crypto (crypto.rs) *)

\* Length of the nonce that starts every payload
NONCE_LEN == 12

NoKey == [pass |-> "", salt |-> ""]

\* derive_key: Argon2id is a function of the passphrase and the salt, taken to be
\* injective: the key is the pair it was derived from.
derive_key(passphrase, salt_b64) == [pass |-> passphrase, salt |-> salt_b64]

\* encrypt: base64(nonce || seal(content)) under key, with the nonce drawn by the caller
encrypt(content, key, nonce) ==
    [kind |-> "sealed", nonce |-> nonce, key |-> key, text |-> content]

\* A content string that is no output of encrypt (plain text sent by the server)
PlainPayload(text) == [kind |-> "plain", nonce |-> 0, key |-> NoKey, text |-> text]

\* Bytes the payload decodes to: nonce, ciphertext and the 16-byte Poly1305 tag
PayloadLen(p) ==
    IF p.kind = "sealed" THEN NONCE_LEN + Len(p.text) + 16 ELSE Len(p.text)

Ok(v) == [ok |-> TRUE, val |-> v]
Err == [ok |-> FALSE, val |-> ""]

\* decrypt: too short, or the AEAD check fails (another key, or no sealed payload)
decrypt(p, key) ==
    IF PayloadLen(p) < NONCE_LEN THEN Err
    ELSE IF p.kind # "sealed" \/ p.key # key THEN Err
    ELSE Ok(p.text)

Nonces == 1..MaxNonce

----------------------------------------------------------------------------
(* crypto.rs at the level of bytes: what encrypt and decrypt do to a string,
   through UTF-8, the AEAD, the payload layout and Base64.  The cipher is a small
   stand-in with the shape of ChaCha20-Poly1305: the ciphertext is the plaintext
   xor a keystream of the key and the nonce, followed by a tag of TAG_LEN bytes
   over key, nonce and ciphertext.  A string is a sequence of code points, a key
   a sequence of KEY_LEN bytes, a Base64 text a sequence of sextets with Pad for
   '='. *)

KEY_LEN == 32
TAG_LEN == 16
Pad == 64

Done(v) == [ok |-> TRUE, val |-> v, err |-> ""]
Fail(err) == [ok |-> FALSE, val |-> <<>>, err |-> err]

\* Every code point is written as one byte.
as_bytesOneBytePerChar(s) == s

\* str::as_bytes: the UTF-8 encoding, for code points below U+0800
RECURSIVE as_bytes(_)
as_bytes(s) ==
    IF s = <<>> THEN <<>>
    ELSE (IF Head(s) < 128 THEN <<Head(s)>>
          ELSE <<192 + (Head(s) \div 64), 128 + (Head(s) % 64)>>) \o as_bytes(Tail(s))

\* String::from_utf8, for the one-byte and two-byte forms: any other byte, a lead
\* byte without its continuation or an overlong form is an error
RECURSIVE from_utf8(_)
from_utf8(bytes) ==
    IF bytes = <<>> THEN Done(<<>>)
    ELSE IF bytes[1] < 128
         THEN LET rest == from_utf8(Tail(bytes))
              IN  IF rest.ok THEN Done(<<bytes[1]>> \o rest.val) ELSE rest
    ELSE IF /\ bytes[1] \in 194..223
            /\ Len(bytes) >= 2
            /\ bytes[2] \in 128..191
         THEN LET rest == from_utf8(Tail(Tail(bytes)))
              IN  IF rest.ok
                  THEN Done(<<(bytes[1] - 192) * 64 + (bytes[2] - 128)>> \o rest.val)
                  ELSE rest
    ELSE Fail("utf8")

\* a XOR b on bytes
RECURSIVE Xor(_, _)
Xor(a, b) ==
    IF a = 0 /\ b = 0 THEN 0
    ELSE (((a % 2) + (b % 2)) % 2) + 2 * Xor(a \div 2, b \div 2)

RECURSIVE SumBytes(_)
SumBytes(bytes) == IF bytes = <<>> THEN 0 ELSE Head(bytes) + SumBytes(Tail(bytes))

\* The keystream byte at position i
KeyStream(key, nonce, i) == (31 * key[1] + 17 * nonce[NONCE_LEN] + 101 * i) % 256

\* The tag over key, nonce and ciphertext
Tag(key, nonce, ct) ==
    [j \in 1..TAG_LEN |->
        (key[j] + nonce[((j - 1) % NONCE_LEN) + 1] + SumBytes(ct) + 7 * Len(ct) + j) % 256]

\* cipher.encrypt(&nonce, plaintext): ciphertext and tag
aead_encrypt(key, nonce, plaintext) ==
    LET ct == [i \in 1..Len(plaintext) |-> Xor(plaintext[i], KeyStream(key, nonce, i))]
    IN  ct \o Tag(key, nonce, ct)

\* cipher.decrypt(nonce, ciphertext): the tag is checked, then the plaintext is
\* returned
aead_decrypt(key, nonce, c) ==
    IF Len(c) < TAG_LEN THEN Fail("aead")
    ELSE LET ct == SubSeq(c, 1, Len(c) - TAG_LEN)
             tag == SubSeq(c, Len(c) - TAG_LEN + 1, Len(c))
         IN  IF tag # Tag(key, nonce, ct) THEN Fail("aead")
             ELSE Done([i \in 1..Len(ct) |-> Xor(ct[i], KeyStream(key, nonce, i))])

\* BASE64.encode: three bytes give four sextets, the last group is padded
RECURSIVE b64_encode(_)
b64_encode(bytes) ==
    IF bytes = <<>> THEN <<>>
    ELSE IF Len(bytes) = 1
         THEN <<bytes[1] \div 4, (bytes[1] % 4) * 16, Pad, Pad>>
    ELSE IF Len(bytes) = 2
         THEN <<bytes[1] \div 4, (bytes[1] % 4) * 16 + (bytes[2] \div 16),
                (bytes[2] % 16) * 4, Pad>>
    ELSE <<bytes[1] \div 4, (bytes[1] % 4) * 16 + (bytes[2] \div 16),
           (bytes[2] % 16) * 4 + (bytes[3] \div 64), bytes[3] % 64>>
             \o b64_encode(SubSeq(bytes, 4, Len(bytes)))

\* BASE64.decode (STANDARD): the length is a multiple of four, padding stands only
\* at the end, and the bits a padded group does not use are zero
RECURSIVE b64_decode(_)
b64_decode(chars) ==
    IF chars = <<>> THEN Done(<<>>)
    ELSE IF Len(chars) < 4 \/ chars[1] \notin 0..63 \/ chars[2] \notin 0..63
            \/ chars[3] \notin 0..64 \/ chars[4] \notin 0..64
         THEN Fail("base64")
    ELSE IF chars[3] = Pad
         THEN IF chars[4] = Pad /\ Len(chars) = 4 /\ chars[2] % 16 = 0
              THEN Done(<<chars[1] * 4 + (chars[2] \div 16)>>)
              ELSE Fail("base64")
    ELSE IF chars[4] = Pad
         THEN IF Len(chars) = 4 /\ chars[3] % 4 = 0
              THEN Done(<<chars[1] * 4 + (chars[2] \div 16),
                          (chars[2] % 16) * 16 + (chars[3] \div 4)>>)
              ELSE Fail("base64")
    ELSE LET rest == b64_decode(SubSeq(chars, 5, Len(chars)))
         IN  IF rest.ok
             THEN Done(<<chars[1] * 4 + (chars[2] \div 16),
                         (chars[2] % 16) * 16 + (chars[3] \div 4),
                         (chars[3] % 4) * 64 + chars[4]>> \o rest.val)
             ELSE rest

\* encrypt, with the nonce generate_nonce drew: Base64 of nonce || ciphertext || tag
encrypt_b64(content, key, nonce) ==
    b64_encode(nonce \o aead_encrypt(key, nonce, as_bytes(content)))

\* decrypt: Base64, the length check, the split at NONCE_LEN, the AEAD, UTF-8
decrypt_b64(payload_b64, key) ==
    LET payload == b64_decode(payload_b64)
    IN  IF ~payload.ok THEN Fail("base64")
        ELSE IF Len(payload.val) < NONCE_LEN THEN Fail("short")
        ELSE LET nonce_bytes == SubSeq(payload.val, 1, NONCE_LEN)
                 ciphertext == SubSeq(payload.val, NONCE_LEN + 1, Len(payload.val))
                 plaintext == aead_decrypt(key, nonce_bytes, ciphertext)
             IN  IF ~plaintext.ok THEN plaintext ELSE from_utf8(plaintext.val)

\* The account of the model: its salt, its passphrase and the key they give
Salt1 == "salt1"
Pass1 == "correct horse"
PassWrong == "wrong"
Key1 == derive_key(Pass1, Salt1)
KeyWrong == derive_key(PassWrong, Salt1)

\* Validator sentinel
RISU_VALID == "RISU-VALID"

\* No call of the crypto module has been made
NoCall == [pc |-> "idle", content |-> <<>>, key |-> <<>>, raw |-> <<>>, payload |-> <<>>,
           out |-> [ok |-> FALSE, val |-> <<>>, err |-> ""]]

\* Neither config file exists and config.rs has not been called
NoFiles == [file |-> <<>>, bak |-> <<>>,
            last |-> [op |-> "", offline |-> FALSE, found |-> <<>>, renamed |-> "no", out |-> <<>>,
                      ok |-> TRUE]]

\* Model::new: active_pane = List, login_session: None, polling_login: false.
\* `sessions` counts the login sessions started, `polls` the /auth/poll requests
\* sent, `polled` is the session of the last of them and `left` the sessions being polled when Esc left the pane.
NoLogin ==
    [active_pane |-> "List", polling_login |-> FALSE, login_session |-> None,
     sessions |-> 0, polls |-> 0, polled |-> None, left |-> {}]

\* No setup was submitted.  `posted` is the body of the POST /auth/e2e/enable of the
\* setup that the server has answered with 200.
NoSetup == [passphrase |-> "", salt |-> "", key |-> NoKey, validator |-> None, posted |-> None]

\* No pull has begun
NoPulled == [before |-> EmptyTable, changes |-> {}]

----------------------------------------------------------------------------
(* APIClient (sync.rs): authenticated_request and refresh_token *)

max_attempts == 3

\* The locals of authenticated_request, with what the call has done so far:
\* `sends` are the bearer tokens of the requests sent, `refreshes` counts the
\* POST /auth/refresh, `resp` is the last outcome of send, `result` what the
\* call returned.
\* `issued` is the pair the last successful POST /auth/refresh answered.
HttpIdle ==
    [pc |-> "idle", attempts |-> 0, sends |-> <<>>, refreshes |-> 0,
     resp |-> "", result |-> "", issued |-> None]

\* struct TokenData as /auth/refresh answers it
TokenPair(id_token, refresh) == [id_token |-> id_token, refresh_token |-> refresh]

\* A retry is allowed after every attempt, the third included.
RetriesLeftOffByOne(attempts) == attempts <= max_attempts

\* attempts < max_attempts
RetriesLeft(attempts) == attempts < max_attempts

\* Every 401 short of the last attempt asks for a refresh.
MayRefreshAny401(status, attempts) == status = "401" /\ attempts < max_attempts

\* resp.status() == StatusCode::UNAUTHORIZED && attempts == 1
MayRefresh(status, attempts) == status = "401" /\ attempts = 1

\* resp.status().is_server_error()
is_server_error(status) == status = "500"

\* authenticated_request is called: attempts = 0, the loop is entered
HTTP_Call ==
    /\ http.pc \in {"idle", "done"}
    /\ http' = [HttpIdle EXCEPT !.pc = "send"]
    /\ UNCHANGED <<notes, kv, rx, reply, pre, crypto_key, passphrase_file, token, srv, sm,
                   trigger, emitted, now, ui_pc, e2e_status, sent, acked, ul, ui_me, inbox,
                   answer, refresh_token, pulls, pulled, e2e, login, cmds, cx, cfg>>

\* One turn of the loop up to builder.send().await: attempts += 1, the bearer is the
\* id_token in the token file now.  `outcomes` are what send may give: a status or a
\* network error.
HTTP_Send(outcomes) ==
    /\ http.pc = "send"
    /\ \E r \in outcomes :
         http' = [http EXCEPT !.attempts = @ + 1, !.sends = Append(@, token),
                              !.resp = r, !.pc = "handle"]
    /\ UNCHANGED <<notes, kv, rx, reply, pre, crypto_key, passphrase_file, token, srv, sm,
                   trigger, emitted, now, ui_pc, e2e_status, sent, acked, ul, ui_me, inbox,
                   answer, refresh_token, pulls, pulled, e2e, login, cmds, cx, cfg>>

\* match res: which arm is taken
HTTP_Handle ==
    /\ http.pc = "handle"
    /\ http' =
         IF http.resp = "neterr"
         THEN IF RetriesLeft(http.attempts)
              THEN [http EXCEPT !.pc = "send"]
              ELSE [http EXCEPT !.pc = "done", !.result = "neterr"]
         ELSE IF MayRefresh(http.resp, http.attempts)
              THEN [http EXCEPT !.pc = "refresh"]
              ELSE IF is_server_error(http.resp) /\ RetriesLeft(http.attempts)
                   THEN [http EXCEPT !.pc = "send"]
                   ELSE [http EXCEPT !.pc = "done", !.result = http.resp]
    /\ UNCHANGED <<notes, kv, rx, reply, pre, crypto_key, passphrase_file, token, srv, sm,
                   trigger, emitted, now, ui_pc, e2e_status, sent, acked, ul, ui_me, inbox,
                   answer, refresh_token, pulls, pulled, e2e, login, cmds, cx, cfg>>

\* self.refresh_token().await.is_ok(): without a stored refresh_token nothing is
\* sent; else POST /auth/refresh, whose `outcomes` are a pair, a failure (network,
\* status, body), or a pair that save_token_data fails to write (token.json is then
\* as before or, truncated, unreadable).  Ok goes round the loop; Err returns the 401
\* response, which is no server error.
HTTP_Refresh(outcomes) ==
    /\ http.pc = "refresh"
    /\ IF refresh_token = ""
       THEN /\ http' = [http EXCEPT !.pc = "done", !.result = http.resp]
            /\ UNCHANGED <<token, refresh_token, pulls, pulled, e2e>>
       ELSE \E o \in outcomes, truncated \in BOOLEAN :
              IF o.kind = "ok"
              THEN /\ token' = o.pair.id_token
                   /\ refresh_token' = o.pair.refresh_token
                   /\ http' = [http EXCEPT !.refreshes = @ + 1, !.issued = Some(o.pair),
                                           !.pc = "send"]
              ELSE /\ http' = [http EXCEPT !.refreshes = @ + 1, !.pc = "done",
                                           !.result = http.resp]
                   /\ token' = IF o.kind = "unsaved" /\ truncated THEN "" ELSE token
                   /\ refresh_token' =
                         IF o.kind = "unsaved" /\ truncated THEN "" ELSE refresh_token
    /\ UNCHANGED <<notes, kv, rx, reply, pre, crypto_key, passphrase_file, srv, sm,
                   trigger, emitted, now, ui_pc, e2e_status, sent, acked, ul, ui_me, inbox,
                   answer, pulls, pulled, e2e, login, cmds, cx, cfg>>

----------------------------------------------------------------------------
(* SyncManager (sync.rs) *)

\* const MAX_PAGES
MAX_PAGES == 100

\* struct AuthMeResponse (the fields the core reads)
AuthMe(plan, salt, validator) ==
    [plan |-> plan, encryption_salt |-> salt, encryption_validator |-> validator]

NoMe == AuthMe("", None, None)

\* struct PullResult
PullResult(changes, has_more, next_cursor) ==
    [changes |-> changes, has_more |-> has_more, next_cursor |-> next_cursor]

NoPage == PullResult(<<>>, FALSE, 0)

\* The SyncManager task between two attempts: waiting in trigger_rx.recv()
SmIdle ==
    [pc |-> "idle", me |-> NoMe, has_key |-> FALSE, begin_cursor |-> 0,
     current_cursor |-> 0, page_count |-> 0, key_opt |-> None, res |-> NoPage,
     batch |-> <<>>, unsynced |-> <<>>, body |-> None, server_time |-> 0]

\* The free-plan test matches no plan.
IsFreePlanNever(plan) == FALSE

\* me.plan.trim().eq_ignore_ascii_case("free")
IsFreePlan(plan) == plan \in {"free", "Free", " free "}

\* try_sync returns without sending a status.
EndAttemptNoStatus(status) ==
    sm' = SmIdle /\ emitted' = emitted

\* try_sync returns after sending its last status
EndAttempt(status) ==
    /\ sm' = SmIdle
    /\ emitted' = Append(emitted, status)

\* SyncManager::start: the first try_sync, then one try_sync per trigger received.
\* try_sync begins by reading the token; without one it reports Offline.
SM_TrySync ==
    /\ sm.pc \in {"start", "idle"}
    /\ sm.pc = "idle" => trigger > 0
    /\ trigger' = IF sm.pc = "idle" THEN trigger - 1 ELSE trigger
    /\ IF token = ""
       THEN /\ sm' = SmIdle
            /\ emitted' = <<"Offline">>
       ELSE /\ sm' = [SmIdle EXCEPT !.pc = "get_me"]
            /\ emitted' = <<>>
    /\ UNCHANGED <<notes, kv, rx, reply, pre, crypto_key, passphrase_file, token, srv,
                   now, ui_pc, e2e_status, sent, acked, ul, ui_me, inbox, answer, http, refresh_token, pulls, pulled, e2e, login, cmds, cx, cfg>>

\* 1. Fetch Plan First: GET /auth/me.  `fails` tells whether the request may fail.
SM_GetMe(fails) ==
    /\ sm.pc = "get_me"
    /\ \E failed \in fails :
         IF failed
         THEN EndAttempt("Error")
         ELSE /\ sm' = [sm EXCEPT !.me = srv,
                                  !.pc = IF IsFreePlan(srv.plan) THEN "free_get_salt"
                                         ELSE "has_key"]
              /\ UNCHANGED emitted
    /\ UNCHANGED <<notes, kv, rx, reply, pre, crypto_key, passphrase_file, token, srv,
                   trigger, now, ui_pc, e2e_status, sent, acked, ul, ui_me, inbox, answer, http, refresh_token, pulls, pulled, e2e, login, cmds, cx, cfg>>

\* 2. Handle Free Plan: is there a local salt?
SM_FreeGetSalt ==
    /\ sm.pc = "free_get_salt"
    /\ IF IsSome(get_kv(kv, "encryption_salt"))
       THEN sm' = [sm EXCEPT !.pc = "free_delete_salt"] /\ UNCHANGED emitted
       ELSE EndAttempt("Offline")
    /\ UNCHANGED <<notes, kv, rx, reply, pre, crypto_key, passphrase_file, token, srv,
                   trigger, now, ui_pc, e2e_status, sent, acked, ul, ui_me, inbox, answer, http, refresh_token, pulls, pulled, e2e, login, cmds, cx, cfg>>

\* self.repo.delete_salt()
SM_FreeDeleteSalt ==
    /\ sm.pc = "free_delete_salt"
    /\ kv' = delete_kv(kv, "encryption_salt")
    /\ sm' = [sm EXCEPT !.pc = "free_delete_passphrase"]
    /\ UNCHANGED <<notes, rx, reply, pre, crypto_key, passphrase_file, token, srv,
                   trigger, emitted, now, ui_pc, e2e_status,
                   sent, acked, ul, ui_me, inbox, answer, http, refresh_token, pulls, pulled, e2e, login, cmds, cx, cfg>>

\* config::delete_passphrase()
SM_FreeDeletePassphrase ==
    /\ sm.pc = "free_delete_passphrase"
    /\ passphrase_file' = None
    /\ sm' = [sm EXCEPT !.pc = "free_clear_key"]
    /\ UNCHANGED <<notes, kv, rx, reply, pre, crypto_key, token, srv,
                   trigger, emitted, now, ui_pc, e2e_status,
                   sent, acked, ul, ui_me, inbox, answer, http, refresh_token, pulls, pulled, e2e, login, cmds, cx, cfg>>

\* *guard = None, then Offline
SM_FreeClearKey ==
    /\ sm.pc = "free_clear_key"
    /\ crypto_key' = None
    /\ EndAttempt("Offline")
    /\ UNCHANGED <<notes, kv, rx, reply, pre, passphrase_file, token, srv,
                   trigger, now, ui_pc, e2e_status, sent, acked, ul, ui_me, inbox, answer, http, refresh_token, pulls, pulled, e2e, login, cmds, cx, cfg>>

\* 3. Paid Plan: has_key = guard.is_some()
SM_HasKey ==
    /\ sm.pc = "has_key"
    /\ sm' = [sm EXCEPT !.has_key = IsSome(crypto_key), !.pc = "get_salt"]
    /\ UNCHANGED <<notes, kv, rx, reply, pre, crypto_key, passphrase_file, token, srv,
                   trigger, emitted, now, ui_pc, e2e_status,
                   sent, acked, ul, ui_me, inbox, answer, http, refresh_token, pulls, pulled, e2e, login, cmds, cx, cfg>>

\* match self.repo.get_salt(): with a salt, go on if the key was there (Syncing);
\* without one, adopt the remote salt if any; in both of the latter cases Offline.
SM_GetSalt ==
    /\ sm.pc = "get_salt"
    /\ IF IsSome(get_kv(kv, "encryption_salt"))
       THEN IF sm.has_key
            THEN /\ sm' = [sm EXCEPT !.pc = "pull_cursor"]
                 /\ emitted' = Append(emitted, "Syncing")
            ELSE EndAttempt("Offline")
       ELSE IF IsSome(sm.me.encryption_salt)
            THEN sm' = [sm EXCEPT !.pc = "set_salt"] /\ UNCHANGED emitted
            ELSE EndAttempt("Offline")
    /\ UNCHANGED <<notes, kv, rx, reply, pre, crypto_key, passphrase_file, token, srv,
                   trigger, now, ui_pc, e2e_status, sent, acked, ul, ui_me, inbox, answer, http, refresh_token, pulls, pulled, e2e, login, cmds, cx, cfg>>

\* self.repo.set_salt(&salt), then Offline
SM_SetSalt ==
    /\ sm.pc = "set_salt"
    /\ kv' = set_kv(kv, "encryption_salt", Unwrap(sm.me.encryption_salt))
    /\ EndAttempt("Offline")
    /\ UNCHANGED <<notes, rx, reply, pre, crypto_key, passphrase_file, token, srv,
                   trigger, now, ui_pc, e2e_status, sent, acked, ul, ui_me, inbox, answer, http, refresh_token, pulls, pulled, e2e, login, cmds, cx, cfg>>

\* pull: let cursor = self.repo.get_cursor()
SM_PullCursor ==
    /\ sm.pc = "pull_cursor"
    /\ sm' = [sm EXCEPT !.begin_cursor = get_cursor(kv), !.current_cursor = get_cursor(kv),
                        !.pc = "check_sync"]
    /\ pulls' = 0
    /\ pulled' = [before |-> notes, changes |-> {}]
    /\ UNCHANGED <<notes, kv, rx, reply, pre, crypto_key, passphrase_file, token, srv,
                   trigger, emitted, now, ui_pc, e2e_status,
                   sent, acked, ul, ui_me, inbox, answer, http, refresh_token, e2e, login, cmds, cx, cfg>>

\* pull: GET /sync/check.  `answers` are the replies the server may give: a
\* last_updated_at, or None for a failed request.  Nothing new: pull returns Ok.
SM_CheckSync(answers) ==
    /\ sm.pc = "check_sync"
    /\ \E server_time \in answers :
         IF server_time = None
         THEN EndAttempt("Error")
         ELSE /\ sm' = [sm EXCEPT !.page_count = 0,
                                  !.server_time = Unwrap(server_time),
                                  !.pc = IF Unwrap(server_time) <= sm.current_cursor
                                         THEN "push_unsynced" ELSE "pull_key"]
              /\ UNCHANGED emitted
    /\ UNCHANGED <<notes, kv, rx, reply, pre, crypto_key, passphrase_file, token, srv,
                   trigger, now, ui_pc, e2e_status, sent, acked, ul, ui_me, inbox, answer, http, refresh_token, pulls, pulled, e2e, login, cmds, cx, cfg>>

\* pull: key_opt = the key in the KeyStore now
SM_PullKey ==
    /\ sm.pc = "pull_key"
    /\ sm' = [sm EXCEPT !.key_opt = crypto_key, !.pc = "pull_changes"]
    /\ UNCHANGED <<notes, kv, rx, reply, pre, crypto_key, passphrase_file, token, srv,
                   trigger, emitted, now, ui_pc, e2e_status,
                   sent, acked, ul, ui_me, inbox, answer, http, refresh_token, pulls, pulled, e2e, login, cmds, cx, cfg>>

\* The outcome of decrypt is not looked at.
KeepsChangeUnchecked(n, key_opt) ==
    n.is_encrypted = 1 /\ IsSome(key_opt)

\* A change marked plaintext is kept as it is.
KeepsChangeAcceptPlain(n, key_opt) ==
    n.is_encrypted = 1 => (IsSome(key_opt) /\ decrypt(n.content, Unwrap(key_opt)).ok)

\* pull: whether a change of the page goes into decrypted_changes
KeepsChange(n, key_opt) ==
    /\ n.is_encrypted = 1
    /\ IsSome(key_opt)
    /\ decrypt(n.content, Unwrap(key_opt)).ok

\* pull: the change as it goes into decrypted_changes
DecryptedChange(n, key_opt) ==
    Note(n.id, n.content.text, n.updated_at, n.is_deleted, n.is_synced, 0)

\* pull: decrypted_changes of a page, in the order of the page
RECURSIVE DecryptedChanges(_, _)
DecryptedChanges(changes, key_opt) ==
    IF changes = <<>> THEN <<>>
    ELSE IF KeepsChange(Head(changes), key_opt)
         THEN <<DecryptedChange(Head(changes), key_opt)>>
                  \o DecryptedChanges(Tail(changes), key_opt)
         ELSE DecryptedChanges(Tail(changes), key_opt)

\* The limit is tested after the increment: one page more is fetched.
PageLimitReachedLate(page_count) == page_count > MAX_PAGES

\* page_count >= MAX_PAGES
PageLimitReached(page_count) == page_count >= MAX_PAGES

\* pull, head of the loop: the page limit, then GET /sync/pull?since=current_cursor.
\* `pages` are the replies the server may give: a PullResult, or None for a failure.
SM_PullChanges(pages) ==
    /\ sm.pc = "pull_changes"
    /\ IF PageLimitReached(sm.page_count)
       THEN sm' = [sm EXCEPT !.pc = "push_unsynced"] /\ UNCHANGED <<emitted, pulls, pulled>>
       ELSE /\ pulls' = pulls + 1
            /\ \E r \in pages :
                 IF r = None
                 THEN EndAttempt("Error") /\ UNCHANGED pulled
                 ELSE /\ pulled' = [pulled EXCEPT !.changes = @ \cup
                                       { Unwrap(r).changes[i] : i \in 1..Len(Unwrap(r).changes) }]
                      /\ sm' = [sm EXCEPT !.page_count = sm.page_count + 1,
                                          !.res = Unwrap(r),
                                          !.batch = DecryptedChanges(Unwrap(r).changes, sm.key_opt),
                                          !.pc = "pull_apply"]
                      /\ UNCHANGED emitted
    /\ UNCHANGED <<notes, kv, rx, reply, pre, crypto_key, passphrase_file, token, srv,
                   trigger, now, ui_pc, e2e_status, sent, acked, ul, ui_me, inbox, answer, http, refresh_token, e2e, login, cmds, cx, cfg>>

\* pull, after the writes of a page: stop at a fixed point of the cursor or when
\* the server has no more
AfterPage(s) ==
    IF s.res.next_cursor = s.current_cursor
    THEN [s EXCEPT !.pc = "push_unsynced"]
    ELSE IF ~s.res.has_more
         THEN [s EXCEPT !.current_cursor = s.res.next_cursor, !.pc = "push_unsynced"]
         ELSE [s EXCEPT !.current_cursor = s.res.next_cursor, !.pc = "pull_changes"]

\* History record of the writes of one page
PullPageReq(res, batch) ==
    [cmd |-> "PullPage", res |-> res, notes |-> batch, cursor |-> res.next_cursor]

\* The cursor is stored first and on its own, the notes in a transaction after it.
ApplyPageCursorFirst(db, batch, res, failAt) ==
    IF batch # <<>>
    THEN LET moved == [db EXCEPT !.kv = set_kv(db.kv, "last_synced_at", res.next_cursor)]
             out == pull_upsert_notes(moved, batch, res.next_cursor, failAt)
         IN  out
    ELSE IF Len(res.changes) > 0
         THEN IF failAt = 0
              THEN [db |-> [db EXCEPT !.kv = set_kv(db.kv, "last_synced_at", res.next_cursor)],
                    ok |-> TRUE]
              ELSE [db |-> db, ok |-> FALSE]
         ELSE [db |-> db, ok |-> TRUE]

\* A page without any change stores its next_cursor as well.
ApplyPageEmptyMovesCursor(db, batch, res, failAt) ==
    IF batch # <<>>
    THEN pull_upsert_notes(db, batch, res.next_cursor, failAt)
    ELSE IF failAt = 0
         THEN [db |-> [db EXCEPT !.kv = set_kv(db.kv, "last_synced_at", res.next_cursor)],
               ok |-> TRUE]
         ELSE [db |-> db, ok |-> FALSE]

\* pull, the writes of a page: PullUpsertNotes(decrypted_changes, next_cursor) when
\* something was decrypted, set_last_synced(next_cursor) when the page had only
\* unusable changes, nothing for an empty page.  failAt as for pull_upsert_notes;
\* for set_last_synced, failAt = 1 is a failed set_kv.
ApplyPage(db, batch, res, failAt) ==
    IF batch # <<>>
    THEN pull_upsert_notes(db, batch, res.next_cursor, failAt)
    ELSE IF Len(res.changes) > 0
         THEN IF failAt = 0
              THEN [db |-> [db EXCEPT !.kv = set_kv(db.kv, "last_synced_at", res.next_cursor)],
                    ok |-> TRUE]
              ELSE [db |-> db, ok |-> FALSE]
         ELSE [db |-> db, ok |-> TRUE]

\* pull, the second half of the loop body: the writes of the page, then the loop
\* control.  An error of the writes ends do_sync through `?`.
SM_PullApply ==
    /\ sm.pc = "pull_apply"
    /\ \E failAt \in 0..(Len(sm.batch) + 2) :
         LET out == ApplyPage([notes |-> notes, kv |-> kv], sm.batch, sm.res, failAt)
         IN  /\ (sm.batch = <<>>) => failAt \in {0, 1}
             /\ (sm.batch = <<>> /\ Len(sm.res.changes) = 0) => failAt = 0
             /\ notes' = out.db.notes
             /\ kv' = out.db.kv
             /\ pre' = [notes |-> notes, kv |-> kv,
                        req |-> Some(PullPageReq(sm.res, sm.batch)), failAt |-> failAt]
             /\ IF out.ok
                THEN sm' = AfterPage(sm) /\ UNCHANGED emitted
                ELSE EndAttempt("Error")
    /\ UNCHANGED <<rx, reply, crypto_key, passphrase_file, token, srv, trigger,
                   now, ui_pc, e2e_status, sent, acked, ul, ui_me, inbox, answer, http, refresh_token, pulls, pulled, e2e, login, cmds, cx, cfg>>

\* get_unsynced_notes: SELECT ... WHERE is_synced = 0, as a set of Notes
get_unsynced_notes(tbl) ==
    { Note(id, tbl[id].content, tbl[id].updated_at, tbl[id].is_deleted,
           tbl[id].is_synced, tbl[id].is_encrypted) :
        id \in { x \in DOMAIN tbl : tbl[x].is_synced = 0 } }

\* The orders in which a SELECT without ORDER BY may return a set of rows
Orders(set) ==
    { f \in [1..Cardinality(set) -> set] : \A i, j \in 1..Cardinality(set) : f[i] = f[j] => i = j }

\* get_note: the row with the id, or None
get_note(tbl, id) ==
    IF id \in DOMAIN tbl
    THEN Some(Note(id, tbl[id].content, tbl[id].updated_at, tbl[id].is_deleted,
                   tbl[id].is_synced, tbl[id].is_encrypted))
    ELSE None

\* mark_as_synced: UPDATE notes SET is_synced = 1 WHERE id = ?
mark_as_synced(tbl, id) ==
    IF id \in DOMAIN tbl THEN [tbl EXCEPT ![id].is_synced = 1] ELSE tbl

\* The note of the snapshot is encrypted and sent, not the row read again.
PushSourceSnapshot(n, latest_n) == n

\* push: the note that is encrypted and sent is the one get_note returned
PushSource(n, latest_n) == latest_n

\* The content is sealed only for a row whose is_encrypted flag is set.
PushBodyByFlag(latest_n, key, nonce) ==
    IF latest_n.is_encrypted = 1
    THEN Note(latest_n.id, encrypt(latest_n.content, key, nonce), latest_n.updated_at,
              latest_n.is_deleted, latest_n.is_synced, 1)
    ELSE Note(latest_n.id, PlainPayload(latest_n.content), latest_n.updated_at,
              latest_n.is_deleted, latest_n.is_synced, 0)

\* push: latest_n.content = ciphertext; latest_n.is_encrypted = 1
PushBody(latest_n, key, nonce) ==
    Note(latest_n.id, encrypt(latest_n.content, key, nonce), latest_n.updated_at,
         latest_n.is_deleted, latest_n.is_synced, 1)

\* push: nothing on the plan "free"; else the unsynced notes, in some order
SM_PushUnsynced ==
    /\ sm.pc = "push_unsynced"
    /\ IF sm.me.plan = "free"
       THEN EndAttempt("Synced")
       ELSE /\ \E order \in Orders(get_unsynced_notes(notes)) :
                 sm' = [sm EXCEPT !.unsynced = order, !.pc = "push_key"]
            /\ UNCHANGED emitted
    /\ UNCHANGED <<notes, kv, rx, reply, pre, crypto_key, passphrase_file, token, srv,
                   trigger, now, ui_pc, e2e_status, sent, acked, ul, ui_me, inbox, answer, http, refresh_token, pulls, pulled, e2e, login, cmds, cx, cfg>>

\* push: key_opt = the key in the KeyStore now
SM_PushKey ==
    /\ sm.pc = "push_key"
    /\ sm' = [sm EXCEPT !.key_opt = crypto_key, !.pc = "push_loop"]
    /\ UNCHANGED <<notes, kv, rx, reply, pre, crypto_key, passphrase_file, token, srv,
                   trigger, emitted, now, ui_pc, e2e_status, sent, acked, ul, ui_me, inbox, answer, http, refresh_token, pulls, pulled, e2e, login, cmds, cx, cfg>>

\* push, end of the loop: every note of the list was handled, do_sync returns Ok
SM_PushDone ==
    /\ sm.pc = "push_loop"
    /\ sm.unsynced = <<>>
    /\ EndAttempt("Synced")
    /\ UNCHANGED <<notes, kv, rx, reply, pre, crypto_key, passphrase_file, token, srv,
                   trigger, now, ui_pc, e2e_status, sent, acked, ul, ui_me, inbox, answer, http, refresh_token, pulls, pulled, e2e, login, cmds, cx, cfg>>

\* push, one note of the list: read it again, encrypt it.  Without the row, without
\* a key or when encrypt fails (`enc_fails`) the note is skipped.
SM_PushEncrypt(enc_fails) ==
    /\ sm.pc = "push_loop"
    /\ sm.unsynced # <<>>
    /\ LET n == Head(sm.unsynced)
           current_note_opt == get_note(notes, n.id)
       IN  \E nonce \in Nonces, failed \in enc_fails :
             IF IsSome(current_note_opt) /\ IsSome(sm.key_opt) /\ ~failed
             THEN sm' = [sm EXCEPT
                           !.body = Some(PushBody(PushSource(n, Unwrap(current_note_opt)),
                                                  Unwrap(sm.key_opt), nonce)),
                           !.pc = "push_post"]
             ELSE sm' = [sm EXCEPT !.unsynced = Tail(sm.unsynced)]
    /\ UNCHANGED <<notes, kv, rx, reply, pre, crypto_key, passphrase_file, token, srv,
                   trigger, emitted, now, ui_pc, e2e_status, sent, acked, ul, ui_me, inbox, answer, http, refresh_token, pulls, pulled, e2e, login, cmds, cx, cfg>>

\* The version of a note a push body carries
VersionOf(id, content, updated_at, is_deleted) ==
    [id |-> id, content |-> content, updated_at |-> updated_at, is_deleted |-> is_deleted]

\* Every failure of push is reported as Error.
PushErrorStatusAlwaysError(a) == "Error"

\* do_sync and try_sync: an error of push whose text contains "Payment Required" is
\* reported as PaymentRequired, any other as Error.  push_note gives that text for
\* 403, and "Push failed: 402 Payment Required" for 402.
PushErrorStatus(a) == IF a \in {"forbidden", "402"} THEN "PaymentRequired" ELSE "Error"

\* The answer of the server is not looked at: MarkAsSynced follows every POST.
SM_PushPostIgnoresAnswer(answers) ==
    /\ sm.pc = "push_post"
    /\ sent' = sm.body
    /\ \E a \in answers :
         /\ answer' = a
         /\ sm' = [sm EXCEPT !.pc = "push_mark"]
         /\ acked' = IF a = "ok"
                     THEN acked \cup
                            { VersionOf(Unwrap(sm.body).id, Unwrap(sm.body).content.text,
                                        Unwrap(sm.body).updated_at, Unwrap(sm.body).is_deleted) }
                     ELSE acked
         /\ UNCHANGED emitted
    /\ UNCHANGED <<notes, kv, rx, reply, pre, crypto_key, passphrase_file, token, srv,
                   trigger, now, ui_pc, e2e_status, ul, ui_me, inbox, http, refresh_token, pulls, pulled, e2e, login, cmds, cx, cfg>>

\* push: POST /sync/push with the body.  `answers` are the outcomes the server and
\* the network may give: 200, 403 (Payment Required) or any other failure.
SM_PushPost(answers) ==
    /\ sm.pc = "push_post"
    /\ sent' = sm.body
    /\ \E a \in answers :
         /\ answer' = a
         /\ IF a = "ok"
            THEN /\ sm' = [sm EXCEPT !.pc = "push_mark"]
                 /\ acked' = acked \cup
                        { VersionOf(Unwrap(sm.body).id, Unwrap(sm.body).content.text,
                                    Unwrap(sm.body).updated_at, Unwrap(sm.body).is_deleted) }
                 /\ UNCHANGED emitted
            ELSE /\ EndAttempt(PushErrorStatus(a))
                 /\ UNCHANGED acked
    /\ UNCHANGED <<notes, kv, rx, reply, pre, crypto_key, passphrase_file, token, srv,
                   trigger, now, ui_pc, e2e_status, ul, ui_me, inbox, http, refresh_token, pulls, pulled, e2e, login, cmds, cx, cfg>>

\* push: mark_as_synced(latest_n.id), then the next note of the list
SM_PushMark ==
    /\ sm.pc = "push_mark"
    /\ notes' = mark_as_synced(notes, Unwrap(sm.body).id)
    /\ sm' = [sm EXCEPT !.unsynced = Tail(sm.unsynced), !.body = None, !.pc = "push_loop"]
    /\ UNCHANGED <<kv, rx, reply, pre, crypto_key, passphrase_file, token, srv,
                   trigger, emitted, now, ui_pc, e2e_status, sent, acked, ul, ui_me, inbox, answer, http, refresh_token, pulls, pulled, e2e, login, cmds, cx, cfg>>

----------------------------------------------------------------------------
(* Controller (main.rs) *)

Contents == {"a", "c"}

\* A save that leaves is_deleted as it finds it.
save_noteKeepsTombstone(tbl, id, content, is_encrypted, at) ==
    Put(tbl, id, Row(content, at, IF id \in DOMAIN tbl THEN tbl[id].is_deleted ELSE 0, 0,
                     IF is_encrypted THEN 1 ELSE 0))

\* save_note: a new row, or every column of the old one replaced
save_note(tbl, id, content, is_encrypted, at) ==
    Put(tbl, id, Row(content, at, 0, 0, IF is_encrypted THEN 1 ELSE 0))

\* A delete that removes the row.
delete_noteRemovesRow(tbl, id, at) == IF id \in DOMAIN tbl THEN Remove(tbl, id) ELSE tbl

\* delete_note: UPDATE notes SET is_deleted = 1, is_synced = 0, updated_at = now WHERE id = ?
delete_note(tbl, id, at) ==
    IF id \in DOMAIN tbl
    THEN [tbl EXCEPT ![id].is_deleted = 1, ![id].is_synced = 0, ![id].updated_at = at]
    ELSE tbl

\* get_notes: the live rows (what Model::notes holds after refresh_notes)
LiveIds(tbl) == { id \in DOMAIN tbl : tbl[id].is_deleted = 0 }

\* get_notes: SELECT ... WHERE is_deleted = 0 ORDER BY updated_at DESC, as a set of
\* Notes (the order is not modelled)
get_notes(tbl) ==
    { Note(id, tbl[id].content, tbl[id].updated_at, tbl[id].is_deleted,
           tbl[id].is_synced, tbl[id].is_encrypted) : id \in LiveIds(tbl) }

\* A clear that leaves kv_store alone.
clear_all_dataNotesOnly(db, failAt) ==
    [db |-> [notes |-> IF failAt = 1 THEN db.notes ELSE EmptyTable, kv |-> db.kv],
     ok |-> failAt = 0]

\* clear_all_data: DELETE FROM notes, then DELETE FROM kv_store, two statements
\* outside a transaction, of which statement failAt fails (0: none)
clear_all_data(db, failAt) ==
    [db |-> [notes |-> IF failAt = 1 THEN db.notes ELSE EmptyTable,
             kv |-> IF failAt = 0 THEN EmptyTable ELSE db.kv],
     ok |-> failAt = 0]

\* Model::save_current_note with a text that is not empty, up to refresh_notes:
\* nothing when the text equals the listed copy of the current note; else SaveNote
\* for the current note, or for a new id when there is no current note.
UI_SaveNote ==
    /\ ui_pc = "idle"
    /\ now < MaxTime
    /\ \E content \in Contents, current_note_id \in {None} \cup { Some(i) : i \in LiveIds(notes) } :
         LET fresh == NoteIds \ DOMAIN notes
         IN  /\ IsSome(current_note_id) => notes[Unwrap(current_note_id)].content # content
             /\ current_note_id = None => fresh # {}
             /\ \E id \in IF IsSome(current_note_id) THEN {Unwrap(current_note_id)} ELSE fresh :
                  notes' = save_note(notes, id, content, e2e_status # "Disabled", now + 1)
    /\ now' = now + 1
    /\ ui_pc' = "trigger"
    /\ UNCHANGED <<kv, rx, reply, pre, crypto_key, passphrase_file, token, srv,
                   sm, trigger, emitted, e2e_status, sent, acked, ul, ui_me, inbox, answer, http, refresh_token, pulls, pulled, e2e, login, cmds, cx, cfg>>

\* Only the empty text is blank.
IsBlankOnlyEmpty(text) == text = ""

\* content.trim().is_empty()
IsBlank(text) == text \in {"", " "}

\* Model::save_current_note, up to the try_send that ends it.  A blank text
\* deletes the current note, if there is one, and saves nothing.  A text that
\* equals the listed copy of the current note returns at once.  Any other text is
\* saved under the current id, or under a new one, with is_encrypted telling
\* whether e2e_status is not "Disabled".  The editor holds an empty text, a blank
\* one or a content.  refresh_notes reloads the list, so the
\* listed copies are the rows of the table.  `cmds` keeps the text, the current id
\* and the requests sent to the Repo.
UI_SaveCurrent ==
    /\ ui_pc = "idle"
    /\ now < MaxTime
    /\ \E text \in {"", " "} \cup Contents, current_note_id \in {None} \cup { Some(i) : i \in LiveIds(notes) } :
         IF IsBlank(text)
         THEN IF IsSome(current_note_id)
              THEN /\ notes' = delete_note(notes, Unwrap(current_note_id), now + 1)
                   /\ now' = now + 1
                   /\ ui_pc' = "trigger"
                   /\ cmds' = <<[text |-> text, current_note_id |-> current_note_id,
                                 issued |-> <<[cmd |-> "DeleteNote",
                                               id |-> Unwrap(current_note_id)]>>]>>
              ELSE /\ cmds' = <<[text |-> text, current_note_id |-> current_note_id,
                                 issued |-> <<>>]>>
                   /\ UNCHANGED <<notes, now, ui_pc>>
         ELSE IF IsSome(current_note_id) /\ notes[Unwrap(current_note_id)].content = text
              THEN /\ cmds' = <<[text |-> text, current_note_id |-> current_note_id,
                                 issued |-> <<>>]>>
                   /\ UNCHANGED <<notes, now, ui_pc>>
              ELSE /\ current_note_id = None => NoteIds \ DOMAIN notes # {}
                   /\ \E id \in IF IsSome(current_note_id) THEN {Unwrap(current_note_id)}
                                ELSE NoteIds \ DOMAIN notes :
                        notes' = save_note(notes, id, text, e2e_status # "Disabled", now + 1)
                   /\ now' = now + 1
                   /\ ui_pc' = "trigger"
                   /\ cmds' = <<[text |-> text, current_note_id |-> current_note_id,
                                 issued |-> <<[cmd |-> "SaveNote", id |-> current_note_id,
                                               content |-> text,
                                               is_encrypted |-> e2e_status # "Disabled"]>>]>>
    /\ UNCHANGED <<kv, rx, reply, pre, crypto_key, passphrase_file, token, srv,
                   sm, trigger, emitted, e2e_status, sent, acked, ul, ui_me, inbox, answer,
                   http, refresh_token, pulls, pulled, e2e, login, cx, cfg>>

\* Model::delete_note (and save_current_note with an empty text): DeleteNote for a
\* listed note, up to refresh_notes
UI_DeleteNote ==
    /\ ui_pc = "idle"
    /\ now < MaxTime
    /\ \E id \in LiveIds(notes) : notes' = delete_note(notes, id, now + 1)
    /\ now' = now + 1
    /\ ui_pc' = "trigger"
    /\ UNCHANGED <<kv, rx, reply, pre, crypto_key, passphrase_file, token, srv,
                   sm, trigger, emitted, e2e_status, sent, acked, ul, ui_me, inbox, answer, http, refresh_token, pulls, pulled, e2e, login, cmds, cx, cfg>>

\* The trigger reaches the SyncManager only when it waits in recv: no buffer.
UI_TriggerUnbuffered ==
    /\ ui_pc = "trigger"
    /\ trigger' = IF sm.pc = "idle" THEN 1 ELSE trigger
    /\ ui_pc' = "idle"
    /\ UNCHANGED <<notes, kv, rx, reply, pre, crypto_key, passphrase_file, token, srv,
                   sm, emitted, now, e2e_status, sent, acked, ul, ui_me, inbox, answer, http, refresh_token, pulls, pulled, e2e, login, cmds, cx, cfg>>

\* self.sync_trigger.try_send(()): dropped when the channel already holds a trigger
UI_Trigger ==
    /\ ui_pc = "trigger"
    /\ trigger' = 1
    /\ ui_pc' = "idle"
    /\ UNCHANGED <<notes, kv, rx, reply, pre, crypto_key, passphrase_file, token, srv,
                   sm, emitted, now, e2e_status, sent, acked, ul, ui_me, inbox, answer, http, refresh_token, pulls, pulled, e2e, login, cmds, cx, cfg>>

\* Model::perform_logout: the token files and the passphrase file are deleted, the
\* KeyStore is cleared, the notes stay
UI_Logout ==
    /\ ui_pc = "idle"
    /\ token # ""
    /\ token' = ""
    /\ refresh_token' = ""
    /\ passphrase_file' = None
    /\ e2e_status' = "Disabled"
    /\ crypto_key' = None
    /\ UNCHANGED <<notes, kv, rx, reply, pre, srv, sm, trigger, emitted, now,
                   ui_pc, sent, acked, ul, ui_me, inbox, answer, http, pulls, pulled, e2e, login, cmds, cx, cfg>>

\* "Sync Now" of the status dialog
UI_SyncNow ==
    /\ ui_pc = "idle"
    /\ ui_pc' = "trigger"
    /\ UNCHANGED <<notes, kv, rx, reply, pre, crypto_key, passphrase_file, token, srv,
                   sm, trigger, emitted, now, e2e_status, sent, acked, ul, ui_me, inbox, answer, http, refresh_token, pulls, pulled, e2e, login, cmds, cx, cfg>>

\* Model::perform_clear_all_data: reset_remote when logged in (it may fail, and
\* what the server forgets is its own business: nothing, or the E2E material),
\* then clear_all_data: DELETE FROM notes, DELETE FROM kv_store, two statements
\* of which statement failAt fails (0: none).  The passphrase file and the
\* KeyStore are not touched.
UI_ClearAllData ==
    /\ ui_pc = "idle"
    /\ \E remote \in {srv, AuthMe(srv.plan, None, None)} :
         /\ token = "" => remote = srv
         /\ srv' = remote
    /\ \E failAt \in 0..2 :
         /\ notes' = clear_all_data([notes |-> notes, kv |-> kv], failAt).db.notes
         /\ kv' = clear_all_data([notes |-> notes, kv |-> kv], failAt).db.kv
    /\ UNCHANGED <<rx, reply, pre, crypto_key, passphrase_file, token, sm, trigger, emitted,
                   now, ui_pc, e2e_status, sent, acked, ul, ui_me, inbox, answer, http, refresh_token, pulls, pulled, e2e, login, cmds, cx, cfg>>

\* ActivePane::ClearConfirm, Enter after "ClearAllData" was typed:
\* perform_clear_all_data as above, with its course kept in `cmds`: how the reset
\* went ("none": not attempted, there is no token) and failAt.
UI_ClearConfirm ==
    /\ ui_pc = "idle"
    /\ \E reset \in IF token = "" THEN {"none"} ELSE {"ok", "failed"},
          remote \in {srv, AuthMe(srv.plan, None, None)}, failAt \in 0..2 :
         /\ reset # "ok" => remote = srv
         /\ srv' = remote
         /\ notes' = clear_all_data([notes |-> notes, kv |-> kv], failAt).db.notes
         /\ kv' = clear_all_data([notes |-> notes, kv |-> kv], failAt).db.kv
         /\ cmds' = <<[reset |-> reset, failAt |-> failAt]>>
    /\ UNCHANGED <<rx, reply, pre, crypto_key, passphrase_file, token, sm, trigger, emitted,
                   now, ui_pc, e2e_status, sent, acked, ul, ui_me, inbox, answer, http, refresh_token, pulls, pulled, e2e, login, cx, cfg>>

----------------------------------------------------------------------------
(* Unlock (main.rs, unlock_process and the tasks that run it) *)

UlIdle == [pc |-> "idle", passphrase |-> "", key |-> NoKey, save |-> FALSE]

\* The task as tokio::spawn starts it; `save` tells the task of the passphrase pane
\* (it stores the passphrase after Ok(true)) from the background unlock.
UlSpawn(passphrase, save) ==
    [pc |-> "get_salt", passphrase |-> passphrase, key |-> NoKey, save |-> save]

\* Whether unlock_process accepts the validator: it opens under the key and says
\* "RISU-VALID".  A server without a validator is accepted.
ValidatorAccepts(validator_opt, key) ==
    IsSome(validator_opt) =>
        /\ decrypt(Unwrap(validator_opt), key).ok
        /\ decrypt(Unwrap(validator_opt), key).val = RISU_VALID

\* unlock_process: an empty passphrase or no local salt is Ok(false); else the key
\* is derived from the passphrase and the salt
UL_GetSalt ==
    /\ ul.pc = "get_salt"
    /\ IF ul.passphrase # "" /\ IsSome(get_kv(kv, "encryption_salt"))
       THEN ul' = [ul EXCEPT !.key = derive_key(ul.passphrase,
                                                 Unwrap(get_kv(kv, "encryption_salt"))),
                             !.pc = "get_me"]
       ELSE ul' = [ul EXCEPT !.pc = "failed"]
    /\ UNCHANGED <<notes, kv, rx, reply, pre, crypto_key, passphrase_file, token, srv,
                   sm, trigger, emitted, now, ui_pc, e2e_status, sent, acked, ui_me, inbox, answer, http, refresh_token, pulls, pulled, e2e, login, cmds, cx, cfg>>

\* unlock_process: GET /auth/me.  A reply is checked against its validator; a
\* failed request is logged as a warning and the unlock goes on.
UL_GetMe(fails) ==
    /\ ul.pc = "get_me"
    /\ \E failed \in fails :
         IF failed
         THEN ul' = [ul EXCEPT !.pc = "install"]
         ELSE IF ValidatorAccepts(srv.encryption_validator, ul.key)
              THEN ul' = [ul EXCEPT !.pc = "install"]
              ELSE ul' = [ul EXCEPT !.pc = "failed"]
    /\ UNCHANGED <<notes, kv, rx, reply, pre, crypto_key, passphrase_file, token, srv,
                   sm, trigger, emitted, now, ui_pc, e2e_status, sent, acked, ui_me, inbox, answer, http, refresh_token, pulls, pulled, e2e, login, cmds, cx, cfg>>

\* unlock_process: *guard = Some(key); Ok(true)
UL_Install ==
    /\ ul.pc = "install"
    /\ crypto_key' = Some(ul.key)
    /\ ul' = [ul EXCEPT !.pc = "installed"]
    /\ UNCHANGED <<notes, kv, rx, reply, pre, passphrase_file, token, srv,
                   sm, trigger, emitted, now, ui_pc, e2e_status, sent, acked, ui_me, inbox, answer, http, refresh_token, pulls, pulled, e2e, login, cmds, cx, cfg>>

\* The task after unlock_process: on Ok(true) the task of the passphrase pane
\* stores the passphrase; then Unlocked or Error is sent, which waits for room.
UL_Report ==
    /\ ul.pc \in {"installed", "failed"}
    /\ Len(inbox) < MaxInbox
    /\ passphrase_file' = IF ul.pc = "installed" /\ ul.save THEN Some(ul.passphrase)
                          ELSE passphrase_file
    /\ inbox' = Append(inbox, IF ul.pc = "installed" THEN "Unlocked" ELSE "Error")
    /\ ul' = UlIdle
    /\ UNCHANGED <<notes, kv, rx, reply, pre, crypto_key, token, srv,
                   sm, trigger, emitted, now, ui_pc, e2e_status, sent, acked, ui_me, answer, http, refresh_token, pulls, pulled, e2e, login, cmds, cx, cfg>>

\* Message::SyncStatusUpdate of an unlock task: Unlocked sets the status and
\* triggers a sync, Error changes nothing here
UI_OnUnlockStatus ==
    /\ ui_pc = "idle"
    /\ inbox # <<>>
    /\ inbox' = Tail(inbox)
    /\ e2e_status' = IF Head(inbox) = "Unlocked" THEN "Unlocked" ELSE e2e_status
    /\ ui_pc' = IF Head(inbox) = "Unlocked" THEN "trigger" ELSE "idle"
    /\ UNCHANGED <<notes, kv, rx, reply, pre, crypto_key, passphrase_file, token, srv,
                   sm, trigger, emitted, now, sent, acked, ul, ui_me, answer, http, refresh_token, pulls, pulled, e2e, login, cmds, cx, cfg>>

\* ActivePane::PassphraseInput, Enter with a passphrase that is not empty: the
\* unlock task is spawned.  The pane opens while the status is "Locked".
UI_EnterPassphrase ==
    /\ ui_pc = "idle"
    /\ e2e_status = "Locked"
    /\ ul.pc = "idle"
    /\ \E passphrase \in {Pass1, PassWrong} : ul' = UlSpawn(passphrase, TRUE)
    /\ UNCHANGED <<notes, kv, rx, reply, pre, crypto_key, passphrase_file, token, srv,
                   sm, trigger, emitted, now, ui_pc, e2e_status, sent, acked, ui_me, inbox, answer, http, refresh_token, pulls, pulled, e2e, login, cmds, cx, cfg>>

\* Model::new: with a local salt the status is "Locked" and, with a stored
\* passphrase, the background unlock is spawned; run() then begins with
\* perform_account_check.
UI_New ==
    /\ ui_pc = "new"
    /\ IF IsSome(get_kv(kv, "encryption_salt"))
       THEN /\ e2e_status' = "Locked"
            /\ ul' = IF IsSome(passphrase_file) THEN UlSpawn(Unwrap(passphrase_file), FALSE)
                     ELSE ul
       ELSE UNCHANGED <<e2e_status, ul>>
    /\ ui_pc' = "ac_get_me"
    /\ UNCHANGED <<notes, kv, rx, reply, pre, crypto_key, passphrase_file, token, srv,
                   sm, trigger, emitted, now, sent, acked, ui_me, inbox, answer, http, refresh_token, pulls, pulled, e2e, login, cmds, cx, cfg>>

----------------------------------------------------------------------------
(* Account check (main.rs, perform_account_check) of a logged-in user *)

\* let is_eligible = me.plan == "pro" || me.plan == "dev"
IsEligible(plan) == plan \in {"pro", "dev"}

\* GET /auth/me: a failure is logged; a paid plan with a salt goes on to set_salt,
\* a paid plan without one needs the setup, any other plan disables E2E and
\* looks for a local salt.
AC_GetMe(fails) ==
    /\ ui_pc = "ac_get_me"
    /\ \E failed \in fails :
         IF failed
         THEN ui_pc' = "idle" /\ UNCHANGED <<ui_me, e2e_status>>
         ELSE /\ ui_me' = srv
              /\ IF IsEligible(srv.plan)
                 THEN IF IsSome(srv.encryption_salt)
                      THEN ui_pc' = "ac_set_salt" /\ UNCHANGED e2e_status
                      ELSE ui_pc' = "idle" /\ e2e_status' = "Setup Required"
                 ELSE ui_pc' = "ac_free_get_salt" /\ e2e_status' = "Disabled"
    /\ UNCHANGED <<notes, kv, rx, reply, pre, crypto_key, passphrase_file, token, srv,
                   sm, trigger, emitted, now, sent, acked, ul, inbox, answer, http, refresh_token, pulls, pulled, e2e, login, cmds, cx, cfg>>

\* self.repo.set_salt(&salt); with a key in the KeyStore "Unlocked" and a trigger;
\* without one "Locked" and, with a stored passphrase, the background unlock
\* (one unlock task at a time: the spawn waits for the task before it).
AC_SetSalt ==
    /\ ui_pc = "ac_set_salt"
    /\ kv' = set_kv(kv, "encryption_salt", Unwrap(ui_me.encryption_salt))
    /\ IF IsSome(crypto_key)
       THEN /\ e2e_status' = "Unlocked"
            /\ ui_pc' = "trigger"
            /\ UNCHANGED ul
       ELSE /\ e2e_status' = "Locked"
            /\ ui_pc' = "idle"
            /\ IsSome(passphrase_file) => ul.pc = "idle"
            /\ ul' = IF IsSome(passphrase_file) THEN UlSpawn(Unwrap(passphrase_file), FALSE)
                     ELSE ul
    /\ UNCHANGED <<notes, rx, reply, pre, crypto_key, passphrase_file, token, srv,
                   sm, trigger, emitted, now, sent, acked, ui_me, inbox, answer, http, refresh_token, pulls, pulled, e2e, login, cmds, cx, cfg>>

\* Not eligible: is there a local salt?
AC_FreeGetSalt ==
    /\ ui_pc = "ac_free_get_salt"
    /\ ui_pc' = IF IsSome(get_kv(kv, "encryption_salt")) THEN "ac_free_delete_salt" ELSE "idle"
    /\ UNCHANGED <<notes, kv, rx, reply, pre, crypto_key, passphrase_file, token, srv,
                   sm, trigger, emitted, now, e2e_status, sent, acked, ul, ui_me, inbox, answer, http, refresh_token, pulls, pulled, e2e, login, cmds, cx, cfg>>

\* self.repo.delete_salt()
AC_FreeDeleteSalt ==
    /\ ui_pc = "ac_free_delete_salt"
    /\ kv' = delete_kv(kv, "encryption_salt")
    /\ ui_pc' = "ac_free_delete_passphrase"
    /\ UNCHANGED <<notes, rx, reply, pre, crypto_key, passphrase_file, token, srv,
                   sm, trigger, emitted, now, e2e_status, sent, acked, ul, ui_me, inbox, answer, http, refresh_token, pulls, pulled, e2e, login, cmds, cx, cfg>>

\* config::delete_passphrase()
AC_FreeDeletePassphrase ==
    /\ ui_pc = "ac_free_delete_passphrase"
    /\ passphrase_file' = None
    /\ ui_pc' = "ac_free_clear_key"
    /\ UNCHANGED <<notes, kv, rx, reply, pre, crypto_key, token, srv,
                   sm, trigger, emitted, now, e2e_status, sent, acked, ul, ui_me, inbox, answer, http, refresh_token, pulls, pulled, e2e, login, cmds, cx, cfg>>

\* *guard = None
AC_FreeClearKey ==
    /\ ui_pc = "ac_free_clear_key"
    /\ crypto_key' = None
    /\ ui_pc' = "idle"
    /\ UNCHANGED <<notes, kv, rx, reply, pre, passphrase_file, token, srv,
                   sm, trigger, emitted, now, e2e_status, sent, acked, ul, ui_me, inbox, answer, http, refresh_token, pulls, pulled, e2e, login, cmds, cx, cfg>>

----------------------------------------------------------------------------
(* E2E setup (main.rs, handle_key_event of ActivePane::E2ESetup, Enter on the
   confirmation field; db.rs, set_notes_encrypted_status) *)

\* The flags are set on every row, tombstones included, and is_synced is kept.
set_notes_encrypted_statusAllKeepSynced(tbl, is_encrypted) ==
    [id \in DOMAIN tbl |-> [tbl[id] EXCEPT !.is_encrypted = is_encrypted]]

\* UPDATE notes SET is_encrypted = ?1, is_synced = 0 WHERE is_deleted = 0
set_notes_encrypted_status(tbl, is_encrypted) ==
    [id \in DOMAIN tbl |->
        IF tbl[id].is_deleted = 0
        THEN [tbl[id] EXCEPT !.is_encrypted = is_encrypted, !.is_synced = 0]
        ELSE tbl[id]]

\* crypto::generate_salt(): 16 random bytes
Salts == {Salt1, "salt2"}

\* Submit with two equal passphrases: generate_salt, derive_key_async, encrypt of
\* the sentinel.  When the derivation or the encryption fails (`fails`) the
\* handler only logs.
E2E_Submit(fails) ==
    /\ ui_pc = "idle"
    /\ e2e_status = "Setup Required"
    /\ \E p1 \in {Pass1, PassWrong}, salt \in Salts, nonce \in Nonces, failed \in fails :
         IF failed
         THEN UNCHANGED <<ui_pc, e2e>>
         ELSE /\ e2e' = [passphrase |-> p1, salt |-> salt, key |-> derive_key(p1, salt),
                         validator |-> Some(encrypt(RISU_VALID, derive_key(p1, salt), nonce)),
                         posted |-> None]
              /\ ui_pc' = "e2e_enable"
    /\ UNCHANGED <<notes, kv, rx, reply, pre, crypto_key, passphrase_file, token, srv,
                   sm, trigger, emitted, now, e2e_status, sent, acked, ul, ui_me, inbox,
                   answer, http, refresh_token, pulls, pulled, login, cmds, cx, cfg>>

\* self.api_client.e2e_enable(Some(&salt), Some(&validator)): POST /auth/e2e/enable.
\* `answers`: the server stores the pair and answers 200, or the request fails.
E2E_Enable(answers) ==
    /\ ui_pc = "e2e_enable"
    /\ \E a \in answers :
         IF a = "ok"
         THEN /\ srv' = [srv EXCEPT !.encryption_salt = Some(e2e.salt),
                                    !.encryption_validator = e2e.validator]
              /\ e2e' = [e2e EXCEPT !.posted = Some([salt |-> e2e.salt, validator |-> e2e.validator])]
              /\ ui_pc' = "e2e_set_salt"
         ELSE /\ ui_pc' = "idle"
              /\ UNCHANGED <<srv, e2e>>
    /\ UNCHANGED <<notes, kv, rx, reply, pre, crypto_key, passphrase_file, token,
                   sm, trigger, emitted, now, e2e_status, sent, acked, ul, ui_me, inbox,
                   answer, http, refresh_token, pulls, pulled, login, cmds, cx, cfg>>

\* self.repo.set_salt(&salt).await?  An error leaves the handler (`fails`).
E2E_SetSalt(fails) ==
    /\ ui_pc = "e2e_set_salt"
    /\ \E failed \in fails :
         IF failed
         THEN ui_pc' = "idle" /\ UNCHANGED kv
         ELSE /\ kv' = set_kv(kv, "encryption_salt", e2e.salt)
              /\ ui_pc' = "e2e_save_passphrase"
    /\ UNCHANGED <<notes, rx, reply, pre, crypto_key, passphrase_file, token, srv,
                   sm, trigger, emitted, now, e2e_status, sent, acked, ul, ui_me, inbox,
                   answer, http, refresh_token, pulls, pulled, e2e, login, cmds, cx, cfg>>

\* config::save_passphrase(&p1)?
E2E_SavePassphrase(fails) ==
    /\ ui_pc = "e2e_save_passphrase"
    /\ \E failed \in fails :
         IF failed
         THEN ui_pc' = "idle" /\ UNCHANGED passphrase_file
         ELSE /\ passphrase_file' = Some(e2e.passphrase)
              /\ ui_pc' = "e2e_mark_notes"
    /\ UNCHANGED <<notes, kv, rx, reply, pre, crypto_key, token, srv,
                   sm, trigger, emitted, now, e2e_status, sent, acked, ul, ui_me, inbox,
                   answer, http, refresh_token, pulls, pulled, e2e, login, cmds, cx, cfg>>

\* self.repo.set_notes_encrypted_status(1).await?
E2E_MarkNotes(fails) ==
    /\ ui_pc = "e2e_mark_notes"
    /\ \E failed \in fails :
         IF failed
         THEN ui_pc' = "idle" /\ UNCHANGED notes
         ELSE /\ notes' = set_notes_encrypted_status(notes, 1)
              /\ ui_pc' = "e2e_install"
    /\ UNCHANGED <<kv, rx, reply, pre, crypto_key, passphrase_file, token, srv,
                   sm, trigger, emitted, now, e2e_status, sent, acked, ul, ui_me, inbox,
                   answer, http, refresh_token, pulls, pulled, e2e, login, cmds, cx, cfg>>

\* Unlock immediately: *guard = Some(key), "Unlocked", then sync_trigger.try_send(())
E2E_Install ==
    /\ ui_pc = "e2e_install"
    /\ crypto_key' = Some(e2e.key)
    /\ e2e_status' = "Unlocked"
    /\ trigger' = 1
    /\ ui_pc' = "idle"
    /\ UNCHANGED <<notes, kv, rx, reply, pre, passphrase_file, token, srv,
                   sm, emitted, now, sent, acked, ul, ui_me, inbox,
                   answer, http, refresh_token, pulls, pulled, e2e, login, cmds, cx, cfg>>

\* The server: the subscription of the account begins or ends
Srv_PlanChange ==
    /\ srv' = [srv EXCEPT !.plan = IF srv.plan = "free" THEN "pro" ELSE "free"]
    /\ UNCHANGED <<notes, kv, rx, reply, pre, crypto_key, passphrase_file, token,
                   sm, trigger, emitted, now, ui_pc, e2e_status, sent, acked, ul, ui_me, inbox, answer, http, refresh_token, pulls, pulled, e2e, login, cmds, cx, cfg>>

----------------------------------------------------------------------------
(* The Repo actor executing PullUpsertNotes commands (db.rs, RepoInternal::run) *)

\* Rows a local table can hold: saved locally under E2E, pulled, deleted locally,
\* pulled tombstone.
RepoRows ==
    { Row("a", t, f[1], f[2], f[3]) :
        t \in Times, f \in {<<0, 0, 1>>, <<0, 1, 0>>, <<1, 0, 0>>, <<1, 1, 0>>} }

RepoTables ==
    UNION { [S -> RepoRows] : S \in SUBSET NoteIds }

\* Notes as pull hands them to the actor: decrypted, is_encrypted = 0
BatchNotes ==
    { Note(id, "b", t, d, 0, 0) : id \in NoteIds, t \in Times, d \in {0, 1} }

Batches == UNION { [1..n -> BatchNotes] : n \in 0..MaxBatch }

PullUpsertNotesReq(batch, cursor) ==
    [cmd |-> "PullUpsertNotes", notes |-> batch, cursor |-> cursor]

RepoInit ==
    /\ notes \in RepoTables
    /\ kv \in {EmptyTable, set_kv(EmptyTable, "last_synced_at", 1)}
    /\ \E b \in Batches, c \in Times :
           rx = <<PullUpsertNotesReq(b, c), PullUpsertNotesReq(b, c)>>
    /\ reply = <<>>
    /\ pre = [notes |-> notes, kv |-> kv, req |-> None, failAt |-> 0]
    /\ crypto_key = None /\ passphrase_file = None /\ token = "" /\ srv = NoMe
    /\ sm = SmIdle /\ trigger = 0 /\ emitted = <<>>
    /\ now = 0 /\ ui_pc = "idle" /\ e2e_status = "Disabled" /\ sent = None /\ acked = {}
    /\ ul = UlIdle /\ ui_me = NoMe /\ inbox = <<>>
    /\ answer = "" /\ http = HttpIdle /\ refresh_token = "" /\ pulls = 0 /\ pulled = NoPulled /\ e2e = NoSetup /\ login = NoLogin /\ cmds = <<>> /\ cx = NoCall /\ cfg = NoFiles

\* DbRequest::PullUpsertNotes: the actor takes the request off the queue, runs the
\* transaction and sends the reply.
RunPullUpsertNotes ==
    /\ rx # <<>>
    /\ Head(rx).cmd = "PullUpsertNotes"
    /\ \E failAt \in 0..(Len(Head(rx).notes) + 2) :
         LET res == pull_upsert_notes([notes |-> notes, kv |-> kv],
                                      Head(rx).notes, Head(rx).cursor, failAt)
         IN  /\ notes' = res.db.notes
             /\ kv' = res.db.kv
             /\ reply' = Append(reply, res.ok)
             /\ pre' = [notes |-> notes, kv |-> kv, req |-> Some(Head(rx)),
                        failAt |-> failAt]
    /\ rx' = Tail(rx)
    /\ UNCHANGED <<crypto_key, passphrase_file, token, srv, sm, trigger, emitted,
                   now, ui_pc, e2e_status, sent, acked, ul, ui_me, inbox, answer, http, refresh_token, pulls, pulled, e2e, login, cmds, cx, cfg>>

RepoNext == RunPullUpsertNotes

SpecRepo == RepoInit /\ [][RepoNext]_vars

----------------------------------------------------------------------------
(* A paid, unlocked account pulling from a server that may answer anything
   (sync.rs, try_sync / do_sync / pull) *)

\* Changes the server may put on a page: sealed under the account's key (live, or
\* a tombstone), sealed under another key, or marked is_encrypted = 0.
ServerChanges ==
    { Note(id, encrypt("b", Key1, 1), t, 0, 1, 1) : id \in NoteIds, t \in Times }
    \cup { Note("n1", encrypt("b", Key1, 1), MaxTime, 1, 1, 1),
           Note("n1", encrypt("b", KeyWrong, 1), MaxTime, 0, 1, 1),
           Note("n1", PlainPayload("p"), MaxTime, 0, 1, 0) }

\* Replies of GET /sync/pull: None is a failed request
ServerPages ==
    {None} \cup
    { Some(PullResult(changes, has_more, next_cursor)) :
        changes \in UNION { [1..n -> ServerChanges] : n \in 0..MaxBatch },
        has_more \in BOOLEAN, next_cursor \in 0..MaxTime }

\* The replies the model lets the server give to the next GET /sync/pull: a pull
\* of the model has at most MaxPages pages, the last one with has_more = false
PagesWithin(pages) ==
    { r \in pages : (IsSome(r) /\ Unwrap(r).has_more) => sm.page_count + 1 < MaxPages }

\* Replies of GET /sync/check: None is a failed request
CheckAnswers == {None} \cup { Some(t) : t \in 0..MaxTime }

PaidAccount == AuthMe("pro", Some(Salt1), Some(encrypt(RISU_VALID, Key1, 1)))

PullInit ==
    /\ \E earlier \in {EmptyTable, Put(EmptyTable, "n1", Row("c", 1, 0, 1, 0))} :
         /\ notes = earlier
         /\ kv \in { set_kv(EmptyTable, "encryption_salt", Salt1),
                     set_kv(set_kv(EmptyTable, "encryption_salt", Salt1), "last_synced_at", 1) }
         /\ earlier # EmptyTable => IsSome(get_kv(kv, "last_synced_at"))
    /\ rx = <<>> /\ reply = <<>>
    /\ pre = [notes |-> notes, kv |-> kv, req |-> None, failAt |-> 0]
    /\ crypto_key = Some(Key1) /\ passphrase_file = Some(Pass1) /\ token = "tok"
    /\ srv = PaidAccount
    /\ sm = [SmIdle EXCEPT !.pc = "start"] /\ trigger = 0 /\ emitted = <<>>
    /\ now = 0 /\ ui_pc = "idle" /\ e2e_status = "Unlocked" /\ sent = None /\ acked = {}
    /\ ul = UlIdle /\ ui_me = NoMe /\ inbox = <<>>
    /\ answer = "" /\ http = HttpIdle /\ refresh_token = "" /\ pulls = 0 /\ pulled = NoPulled /\ e2e = NoSetup /\ login = NoLogin /\ cmds = <<>> /\ cx = NoCall /\ cfg = NoFiles

PullNext ==
    \/ SM_TrySync
    \/ SM_GetMe({FALSE, TRUE})
    \/ SM_HasKey
    \/ SM_GetSalt
    \/ SM_PullCursor
    \/ SM_CheckSync(CheckAnswers)
    \/ SM_PullKey
    \/ SM_PullChanges(PagesWithin(ServerPages))
    \/ SM_PullApply
    \/ SM_PushUnsynced
    \/ SM_PushKey
    \/ SM_PushDone

SpecPull == PullInit /\ [][PullNext]_vars

----------------------------------------------------------------------------
(* Specification SpecPaging: one pull against a server that answers any page at
   any time, has_more for ever and cursors that keep changing included
   (sync.rs, SyncManager::pull) *)

\* Pages the server may answer: empty or with one change, any has_more and cursor
LoopPages ==
    {None} \cup
    { Some(PullResult(changes, has_more, next_cursor)) :
        changes \in {<<>>, <<Note("n1", encrypt("b", Key1, 1), 1, 0, 1, 1)>>},
        has_more \in BOOLEAN, next_cursor \in 0..MaxTime }

PagingInit ==
    /\ notes = EmptyTable
    /\ kv \in { set_kv(EmptyTable, "encryption_salt", Salt1),
                set_kv(set_kv(EmptyTable, "encryption_salt", Salt1), "last_synced_at", 1) }
    /\ rx = <<>> /\ reply = <<>>
    /\ pre = [notes |-> notes, kv |-> kv, req |-> None, failAt |-> 0]
    /\ crypto_key = Some(Key1) /\ passphrase_file = Some(Pass1) /\ token = "tok"
    /\ srv = PaidAccount
    /\ sm = [SmIdle EXCEPT !.pc = "pull_cursor", !.me = PaidAccount, !.has_key = TRUE]
    /\ trigger = 0 /\ emitted = <<"Syncing">>
    /\ now = 0 /\ ui_pc = "idle" /\ e2e_status = "Unlocked" /\ sent = None /\ acked = {}
    /\ ul = UlIdle /\ ui_me = NoMe /\ inbox = <<>>
    /\ answer = "" /\ http = HttpIdle /\ refresh_token = "" /\ pulls = 0 /\ pulled = NoPulled /\ e2e = NoSetup /\ login = NoLogin /\ cmds = <<>> /\ cx = NoCall /\ cfg = NoFiles

PagingNext ==
    \/ SM_PullCursor
    \/ SM_CheckSync(CheckAnswers)
    \/ SM_PullKey
    \/ SM_PullChanges(LoopPages)
    \/ SM_PullApply

SpecPaging == PagingInit /\ [][PagingNext]_vars

----------------------------------------------------------------------------
(* A paid, unlocked account whose user edits, deletes and logs out while the
   SyncManager pushes; the server has nothing new to pull
   (sync.rs, try_sync / do_sync / push; main.rs, the controller) *)

\* Replies of POST /sync/push: 200, 403, 402, or a failure of another kind
PushAnswers == {"ok", "forbidden", "402", "error"}

\* A note an earlier pull stored: plaintext at rest, synced
PulledRow == Row("b", 0, 0, 1, 0)

PushInit ==
    /\ notes \in {EmptyTable, Put(EmptyTable, "n2", PulledRow)}
    /\ kv = set_kv(set_kv(EmptyTable, "encryption_salt", Salt1), "last_synced_at", 1)
    /\ rx = <<>> /\ reply = <<>>
    /\ pre = [notes |-> notes, kv |-> kv, req |-> None, failAt |-> 0]
    /\ crypto_key = Some(Key1) /\ passphrase_file = Some(Pass1) /\ token = "tok"
    /\ srv = PaidAccount
    /\ sm = [SmIdle EXCEPT !.pc = "start"] /\ trigger = 0 /\ emitted = <<>>
    /\ now = 0 /\ ui_pc = "idle" /\ e2e_status = "Unlocked" /\ sent = None /\ acked = {}
    /\ ul = UlIdle /\ ui_me = NoMe /\ inbox = <<>>
    /\ answer = "" /\ http = HttpIdle /\ refresh_token = "" /\ pulls = 0 /\ pulled = NoPulled /\ e2e = NoSetup /\ login = NoLogin /\ cmds = <<>> /\ cx = NoCall /\ cfg = NoFiles

PushNext ==
    \/ SM_TrySync
    \/ SM_GetMe({FALSE, TRUE})
    \/ SM_HasKey
    \/ SM_GetSalt
    \/ SM_PullCursor
    \/ SM_CheckSync({Some(0), None})
    \/ SM_PushUnsynced
    \/ SM_PushKey
    \/ SM_PushDone
    \/ SM_PushEncrypt({FALSE, TRUE})
    \/ SM_PushPost(PushAnswers)
    \/ SM_PushMark
    \/ UI_SaveNote
    \/ UI_DeleteNote
    \/ UI_Trigger
    \/ UI_Logout

SpecPush == PushInit /\ [][PushNext]_vars

\* The SyncManager task in SpecPush: the step it can take next
SM_Next ==
    \/ SM_TrySync
    \/ SM_GetMe({FALSE, TRUE})
    \/ SM_HasKey
    \/ SM_GetSalt
    \/ SM_PullCursor
    \/ SM_CheckSync({Some(0), None})
    \/ SM_PushUnsynced
    \/ SM_PushKey
    \/ SM_PushDone
    \/ SM_PushEncrypt({FALSE, TRUE})
    \/ SM_PushPost(PushAnswers)
    \/ SM_PushMark

\* SpecPush with a SyncManager task that is scheduled whenever it can run and
\* whose requests are all answered, and a Controller that gets to its try_send
SpecPushFair == SpecPush /\ WF_vars(SM_Next) /\ WF_vars(UI_Trigger)

----------------------------------------------------------------------------
(* A logged-in user starting the program: unlock, account check, sync gate,
   with a server whose plan changes and whose requests may fail *)

AccountInit ==
    /\ notes = EmptyTable
    /\ \E salted \in BOOLEAN, stored \in BOOLEAN :
         /\ stored => salted
         /\ kv = IF salted THEN set_kv(EmptyTable, "encryption_salt", Salt1) ELSE EmptyTable
         /\ passphrase_file = IF stored THEN Some(Pass1) ELSE None
    /\ rx = <<>> /\ reply = <<>>
    /\ pre = [notes |-> notes, kv |-> kv, req |-> None, failAt |-> 0]
    /\ crypto_key = None /\ token = "tok"
    /\ srv \in {PaidAccount, [PaidAccount EXCEPT !.plan = "free"]}
    /\ sm = [SmIdle EXCEPT !.pc = "start"] /\ trigger = 0 /\ emitted = <<>>
    /\ now = 0 /\ ui_pc = "new" /\ e2e_status = "Disabled" /\ sent = None /\ acked = {}
    /\ ul = UlIdle /\ ui_me = NoMe /\ inbox = <<>>
    /\ answer = "" /\ http = HttpIdle /\ refresh_token = "ref" /\ pulls = 0 /\ pulled = NoPulled /\ e2e = NoSetup /\ login = NoLogin /\ cmds = <<>> /\ cx = NoCall /\ cfg = NoFiles

AccountNext ==
    \/ SM_TrySync
    \/ SM_GetMe({FALSE, TRUE})
    \/ SM_FreeGetSalt
    \/ SM_FreeDeleteSalt
    \/ SM_FreeDeletePassphrase
    \/ SM_FreeClearKey
    \/ SM_HasKey
    \/ SM_GetSalt
    \/ SM_SetSalt
    \/ SM_PullCursor
    \/ SM_CheckSync({Some(0), None})
    \/ SM_PushUnsynced
    \/ SM_PushKey
    \/ SM_PushDone
    \/ UI_New
    \/ AC_GetMe({FALSE, TRUE})
    \/ AC_SetSalt
    \/ AC_FreeGetSalt
    \/ AC_FreeDeleteSalt
    \/ AC_FreeDeletePassphrase
    \/ AC_FreeClearKey
    \/ UI_EnterPassphrase
    \/ UI_OnUnlockStatus
    \/ UI_SyncNow
    \/ UI_Trigger
    \/ UI_ClearAllData
    \/ UI_Logout
    \/ UL_GetSalt
    \/ UL_GetMe({FALSE, TRUE})
    \/ UL_Install
    \/ UL_Report
    \/ Srv_PlanChange

SpecAccount == AccountInit /\ [][AccountNext]_vars

----------------------------------------------------------------------------
(* Specification SpecKeyRace: the start of the program for a paid account with a
   local salt and a stored passphrase.  The background unlock, the account check
   of the Controller and the first attempts of the SyncManager run side by side
   while the server has a change to deliver and may move the account to the free
   plan; the user may log out. *)

\* Replies of GET /sync/pull: a failure, or one page with the one change the
\* server holds, sealed under the key of the account
RacePages ==
    {None} \cup
    { Some(PullResult(<<Note("n1", encrypt("b", Key1, 1), t, 0, 1, 1)>>, FALSE, t)) :
        t \in 1..MaxTime }

\* do_sync: "We still attempt pull even if plan is free (server filters it)": to
\* an account on the free plan the server delivers no change
Filtered(pages) ==
    IF srv.plan = "free"
    THEN {None} \cup { Some(PullResult(<<>>, FALSE, t)) : t \in 1..MaxTime }
    ELSE pages

\* authenticated_request: without a token the request carries no credentials and
\* the server refuses it; `replies` are the replies to a request that has them
Authenticated(replies, refused) == IF token = "" THEN {refused} ELSE replies

KeyRaceInit ==
    /\ notes = EmptyTable
    /\ kv = set_kv(EmptyTable, "encryption_salt", Salt1)
    /\ passphrase_file = Some(Pass1)
    /\ rx = <<>> /\ reply = <<>>
    /\ pre = [notes |-> notes, kv |-> kv, req |-> None, failAt |-> 0]
    /\ crypto_key = None /\ token = "tok"
    /\ srv = PaidAccount
    /\ sm = [SmIdle EXCEPT !.pc = "start"] /\ trigger = 0 /\ emitted = <<>>
    /\ now = 0 /\ ui_pc = "new" /\ e2e_status = "Disabled" /\ sent = None /\ acked = {}
    /\ ul = UlIdle /\ ui_me = NoMe /\ inbox = <<>>
    /\ answer = "" /\ http = HttpIdle /\ refresh_token = "ref" /\ pulls = 0 /\ pulled = NoPulled /\ e2e = NoSetup /\ login = NoLogin /\ cmds = <<>> /\ cx = NoCall /\ cfg = NoFiles

KeyRaceNext ==
    \/ SM_TrySync
    \/ SM_GetMe(Authenticated({FALSE, TRUE}, TRUE))
    \/ SM_FreeGetSalt
    \/ SM_FreeDeleteSalt
    \/ SM_FreeDeletePassphrase
    \/ SM_FreeClearKey
    \/ SM_HasKey
    \/ SM_GetSalt
    \/ SM_SetSalt
    \/ SM_PullCursor
    \/ SM_CheckSync(Authenticated({Some(MaxTime), None}, None))
    \/ SM_PullKey
    \/ SM_PullChanges(Authenticated(Filtered(RacePages), None))
    \/ SM_PullApply
    \/ SM_PushUnsynced
    \/ SM_PushKey
    \/ SM_PushDone
    \/ UI_New
    \/ AC_GetMe(Authenticated({FALSE, TRUE}, TRUE))
    \/ AC_SetSalt
    \/ AC_FreeGetSalt
    \/ AC_FreeDeleteSalt
    \/ AC_FreeDeletePassphrase
    \/ AC_FreeClearKey
    \/ UI_OnUnlockStatus
    \/ UI_Trigger
    \/ UI_Logout
    \/ UL_GetSalt
    \/ UL_GetMe(Authenticated({FALSE, TRUE}, TRUE))
    \/ UL_Install
    \/ UL_Report
    \/ Srv_PlanChange

SpecKeyRace == KeyRaceInit /\ [][KeyRaceNext]_vars

----------------------------------------------------------------------------
(* Specification SpecPlan: the account of SpecAccount under every plan value the
   server may name in GET /auth/me (sync.rs, AuthMeResponse.plan is a String) *)

\* free, the two paid plans, and a plan this version of the program does not know
Plans == {"free", "pro", "dev", "team"}

PlanInit ==
    /\ notes = EmptyTable
    /\ \E salted \in BOOLEAN, stored \in BOOLEAN :
         /\ stored => salted
         /\ kv = IF salted THEN set_kv(EmptyTable, "encryption_salt", Salt1) ELSE EmptyTable
         /\ passphrase_file = IF stored THEN Some(Pass1) ELSE None
    /\ rx = <<>> /\ reply = <<>>
    /\ pre = [notes |-> notes, kv |-> kv, req |-> None, failAt |-> 0]
    /\ crypto_key = None /\ token = "tok"
    /\ \E plan \in Plans : srv = [PaidAccount EXCEPT !.plan = plan]
    /\ sm = [SmIdle EXCEPT !.pc = "start"] /\ trigger = 0 /\ emitted = <<>>
    /\ now = 0 /\ ui_pc = "new" /\ e2e_status = "Disabled" /\ sent = None /\ acked = {}
    /\ ul = UlIdle /\ ui_me = NoMe /\ inbox = <<>>
    /\ answer = "" /\ http = HttpIdle /\ refresh_token = "ref" /\ pulls = 0 /\ pulled = NoPulled /\ e2e = NoSetup /\ login = NoLogin /\ cmds = <<>> /\ cx = NoCall /\ cfg = NoFiles

PlanNext ==
    \/ SM_TrySync
    \/ SM_GetMe({FALSE, TRUE})
    \/ SM_FreeGetSalt
    \/ SM_FreeDeleteSalt
    \/ SM_FreeDeletePassphrase
    \/ SM_FreeClearKey
    \/ SM_HasKey
    \/ SM_GetSalt
    \/ SM_SetSalt
    \/ SM_PullCursor
    \/ SM_CheckSync({Some(0), None})
    \/ SM_PushUnsynced
    \/ SM_PushKey
    \/ SM_PushDone
    \/ UI_New
    \/ AC_GetMe({FALSE, TRUE})
    \/ AC_SetSalt
    \/ AC_FreeGetSalt
    \/ AC_FreeDeleteSalt
    \/ AC_FreeDeletePassphrase
    \/ AC_FreeClearKey
    \/ UI_EnterPassphrase
    \/ UI_OnUnlockStatus
    \/ UI_SyncNow
    \/ UI_Trigger
    \/ UL_GetSalt
    \/ UL_GetMe({FALSE, TRUE})
    \/ UL_Install
    \/ UL_Report

SpecPlan == PlanInit /\ [][PlanNext]_vars

----------------------------------------------------------------------------
(* Login (main.rs: the status dialog, ActivePane::Login, start_login, poll_login
   and Message::PollingTick) *)

\* Model::start_login: POST /auth/session; with a session the browser opens and
\* login_session = Some(session), polling_login = true.  A failed request
\* returns through `?` (failed = TRUE) and the caller drops the error.
start_login(l, failed) ==
    IF failed THEN l
    ELSE [l EXCEPT !.login_session = Some(l.sessions + 1), !.polling_login = TRUE,
                   !.sessions = l.sessions + 1]

\* Status dialog, item "Login" (shown without a token): start_login, whatever
\* polling_login says, then active_pane = Login
LG_Open(fails) ==
    /\ ui_pc = "idle"
    /\ token = ""
    /\ login.active_pane = "List"
    /\ login.sessions < MaxSessions
    /\ \E failed \in fails :
         login' = [start_login(login, failed) EXCEPT !.active_pane = "Login"]
    /\ UNCHANGED <<notes, kv, rx, reply, pre, crypto_key, passphrase_file, token, srv,
                   sm, trigger, emitted, now, ui_pc, e2e_status, sent, acked, ul, ui_me,
                   inbox, answer, http, refresh_token, pulls, pulled, e2e, cmds, cx, cfg>>

\* ActivePane::Login, Enter: start_login unless polling_login
LG_Enter(fails) ==
    /\ ui_pc = "idle"
    /\ login.active_pane = "Login"
    /\ login.sessions < MaxSessions
    /\ \E failed \in fails :
         login' = IF login.polling_login THEN login ELSE start_login(login, failed)
    /\ UNCHANGED <<notes, kv, rx, reply, pre, crypto_key, passphrase_file, token, srv,
                   sm, trigger, emitted, now, ui_pc, e2e_status, sent, acked, ul, ui_me,
                   inbox, answer, http, refresh_token, pulls, pulled, e2e, cmds, cx, cfg>>

\* ActivePane::Login, Esc: active_pane = List and nothing else
LG_Esc ==
    /\ ui_pc = "idle"
    /\ login.active_pane = "Login"
    /\ login' = [login EXCEPT !.active_pane = "List",
                              !.left = IF login.polling_login /\ IsSome(login.login_session)
                                       THEN @ \cup {Unwrap(login.login_session)} ELSE @]
    /\ UNCHANGED <<notes, kv, rx, reply, pre, crypto_key, passphrase_file, token, srv,
                   sm, trigger, emitted, now, ui_pc, e2e_status, sent, acked, ul, ui_me,
                   inbox, answer, http, refresh_token, pulls, pulled, e2e, cmds, cx, cfg>>

\* The answers of GET /auth/poll?session=..: the login is not done yet, it is done,
\* the session is not known (404), or the request fails
PollAnswers == {"pending", "success", "not_found", "error"}

\* Message::PollingTick (select! offers it while polling_login) and poll_login:
\* with a login_session one GET /auth/poll is sent.  On "success" the tokens are
\* saved, the polling ends and the account is looked at as perform_account_check
\* does, except that a salt always means "Locked"; the handler ends with
\* sync_trigger.send(()).await.  On "not_found" the polling ends; otherwise
\* nothing changes.  `me_fails` tells whether GET /auth/me may fail.
LG_PollingTick(answers, me_fails) ==
    /\ ui_pc = "idle"
    /\ login.polling_login
    /\ IsSome(login.login_session)
    /\ login.polls < MaxPolls
    /\ \E a \in answers, failed \in me_fails :
         LET asked == [login EXCEPT !.polled = login.login_session, !.polls = @ + 1]
             done == [asked EXCEPT !.polling_login = FALSE, !.login_session = None]
             local == IsSome(get_kv(kv, "encryption_salt"))
         IN  IF a = "success"
             THEN /\ token' = "tok"
                  /\ refresh_token' = "ref"
                  /\ ui_pc' = "pl_trigger"
                  /\ IF failed
                     THEN /\ login' = [done EXCEPT !.active_pane = "List"]
                          /\ UNCHANGED <<kv, passphrase_file, crypto_key, e2e_status, ul, ui_me>>
                     ELSE /\ ui_me' = srv
                          /\ IF IsEligible(srv.plan)
                             THEN IF IsSome(srv.encryption_salt)
                                  THEN /\ kv' = set_kv(kv, "encryption_salt", Unwrap(srv.encryption_salt))
                                       /\ e2e_status' = "Locked"
                                       /\ ul' = IF IsSome(passphrase_file)
                                                THEN UlSpawn(Unwrap(passphrase_file), FALSE) ELSE ul
                                       /\ login' = [done EXCEPT !.active_pane =
                                                       IF IsSome(passphrase_file) THEN "List"
                                                       ELSE "PassphraseInput"]
                                       /\ UNCHANGED <<passphrase_file, crypto_key>>
                                  ELSE /\ e2e_status' = "Setup Required"
                                       /\ login' = [done EXCEPT !.active_pane = "E2ESetup"]
                                       /\ UNCHANGED <<kv, passphrase_file, crypto_key, ul>>
                             ELSE /\ e2e_status' = "Disabled"
                                  /\ login' = [done EXCEPT !.active_pane = "List"]
                                  /\ kv' = IF local THEN delete_kv(kv, "encryption_salt") ELSE kv
                                  /\ passphrase_file' = IF local THEN None ELSE passphrase_file
                                  /\ crypto_key' = IF local THEN None ELSE crypto_key
                                  /\ UNCHANGED ul
             ELSE /\ login' = IF a = "not_found" THEN done ELSE asked
                  /\ UNCHANGED <<kv, passphrase_file, crypto_key, e2e_status, ul, ui_me,
                                 token, refresh_token, ui_pc>>
    /\ UNCHANGED <<notes, rx, reply, pre, srv, sm, trigger, emitted, now, sent, acked,
                   inbox, answer, http, pulls, pulled, e2e, cmds, cx, cfg>>

\* The end of poll_login after a success: sync_trigger.send(()).await, which waits
\* while the trigger channel is full
LG_Trigger ==
    /\ ui_pc = "pl_trigger"
    /\ trigger = 0
    /\ trigger' = 1
    /\ ui_pc' = "idle"
    /\ UNCHANGED <<notes, kv, rx, reply, pre, crypto_key, passphrase_file, token, srv,
                   sm, emitted, now, e2e_status, sent, acked, ul, ui_me, inbox, answer,
                   http, refresh_token, pulls, pulled, e2e, login, cmds, cx, cfg>>

----------------------------------------------------------------------------
(* Specification SpecLogin: a program without a token; the user opens the Login
   pane, starts login sessions, leaves the pane, and the polling ticks arrive *)

LoginInit ==
    /\ notes = EmptyTable
    /\ \E salted \in BOOLEAN :
         /\ kv = IF salted THEN set_kv(EmptyTable, "encryption_salt", Salt1) ELSE EmptyTable
         /\ e2e_status = IF salted THEN "Locked" ELSE "Disabled"
    /\ passphrase_file = None
    /\ rx = <<>> /\ reply = <<>>
    /\ pre = [notes |-> notes, kv |-> kv, req |-> None, failAt |-> 0]
    /\ crypto_key = None /\ token = "" /\ refresh_token = ""
    /\ \E plan \in Plans, e2e_on \in BOOLEAN :
         srv = IF e2e_on THEN [PaidAccount EXCEPT !.plan = plan] ELSE AuthMe(plan, None, None)
    /\ sm = SmIdle /\ trigger = 0 /\ emitted = <<"Offline">>
    /\ now = 0 /\ ui_pc = "idle" /\ sent = None /\ acked = {}
    /\ ul = UlIdle /\ ui_me = NoMe /\ inbox = <<>>
    /\ answer = "" /\ http = HttpIdle /\ pulls = 0 /\ pulled = NoPulled /\ e2e = NoSetup
    /\ login = NoLogin /\ cmds = <<>> /\ cx = NoCall /\ cfg = NoFiles

LoginNext ==
    \/ LG_Open({FALSE, TRUE})
    \/ LG_Enter({FALSE, TRUE})
    \/ LG_Esc
    \/ LG_PollingTick(PollAnswers, {FALSE, TRUE})
    \/ LG_Trigger

SpecLogin == LoginInit /\ [][LoginNext]_vars

----------------------------------------------------------------------------
(* Specification SpecNotes: the Repo actor executing the requests on notes
   (db.rs, RepoInternal::run and the functions it calls), from an empty database.
   A reply is a record: ok, and the value of Ok.  `pre` keeps the tables before
   the request and the request. *)

Executed(req, failAt) == [notes |-> notes, kv |-> kv, req |-> Some(req), failAt |-> failAt]

\* DbRequest::SaveNote {id, content, is_encrypted}: Utc::now() is read, the row is
\* upserted, the reply is the id; without an id Uuid::new_v4() names a row that
\* does not exist
RunSaveNote ==
    /\ Len(reply) < MaxRequests
    /\ now < MaxTime
    /\ \E id_opt \in {None} \cup { Some(i) : i \in NoteIds }, content \in Contents,
          is_encrypted \in BOOLEAN :
         /\ id_opt = None => NoteIds \ DOMAIN notes # {}
         /\ \E id \in IF IsSome(id_opt) THEN {Unwrap(id_opt)} ELSE NoteIds \ DOMAIN notes :
              /\ notes' = save_note(notes, id, content, is_encrypted, now + 1)
              /\ reply' = Append(reply, [ok |-> TRUE, val |-> id])
         /\ pre' = Executed([cmd |-> "SaveNote", id |-> id_opt, content |-> content,
                             is_encrypted |-> is_encrypted], 0)
    /\ now' = now + 1
    /\ UNCHANGED <<kv, rx, crypto_key, passphrase_file, token, srv, sm, trigger, emitted,
                   ui_pc, e2e_status, sent, acked, ul, ui_me, inbox, answer, http,
                   refresh_token, pulls, pulled, e2e, login, cmds, cx, cfg>>

\* DbRequest::DeleteNote {id}: Utc::now() is read and the UPDATE runs; it is Ok
\* whether or not a row has the id
RunDeleteNote ==
    /\ Len(reply) < MaxRequests
    /\ now < MaxTime
    /\ \E id \in NoteIds :
         /\ notes' = delete_note(notes, id, now + 1)
         /\ pre' = Executed([cmd |-> "DeleteNote", id |-> id], 0)
    /\ reply' = Append(reply, [ok |-> TRUE, val |-> ""])
    /\ now' = now + 1
    /\ UNCHANGED <<kv, rx, crypto_key, passphrase_file, token, srv, sm, trigger, emitted,
                   ui_pc, e2e_status, sent, acked, ul, ui_me, inbox, answer, http,
                   refresh_token, pulls, pulled, e2e, login, cmds, cx, cfg>>

\* DbRequest::MarkAsSynced {id}
RunMarkAsSynced ==
    /\ Len(reply) < MaxRequests
    /\ \E id \in NoteIds :
         /\ notes' = mark_as_synced(notes, id)
         /\ pre' = Executed([cmd |-> "MarkAsSynced", id |-> id], 0)
    /\ reply' = Append(reply, [ok |-> TRUE, val |-> ""])
    /\ UNCHANGED <<kv, rx, crypto_key, passphrase_file, token, srv, sm, trigger, emitted,
                   now, ui_pc, e2e_status, sent, acked, ul, ui_me, inbox, answer, http,
                   refresh_token, pulls, pulled, e2e, login, cmds, cx, cfg>>

\* DbRequest::ClearAllData
RunClearAllData ==
    /\ Len(reply) < MaxRequests
    /\ \E failAt \in 0..2 :
         LET res == clear_all_data([notes |-> notes, kv |-> kv], failAt)
         IN  /\ notes' = res.db.notes
             /\ kv' = res.db.kv
             /\ reply' = Append(reply, [ok |-> res.ok, val |-> ""])
             /\ pre' = Executed([cmd |-> "ClearAllData"], failAt)
    /\ UNCHANGED <<rx, crypto_key, passphrase_file, token, srv, sm, trigger, emitted,
                   now, ui_pc, e2e_status, sent, acked, ul, ui_me, inbox, answer, http,
                   refresh_token, pulls, pulled, e2e, login, cmds, cx, cfg>>

\* DbRequest::GetNotes, GetNote {id}, GetUnsyncedNotes: the tables stay as they are
RunQuery ==
    /\ Len(reply) < MaxRequests
    /\ \E req \in {[cmd |-> "GetNotes"], [cmd |-> "GetUnsyncedNotes"]}
                    \cup { [cmd |-> "GetNote", id |-> i] : i \in NoteIds } :
         /\ reply' = Append(reply,
                [ok |-> TRUE,
                 val |-> IF req.cmd = "GetNotes" THEN get_notes(notes)
                         ELSE IF req.cmd = "GetUnsyncedNotes" THEN get_unsynced_notes(notes)
                         ELSE get_note(notes, req.id)])
         /\ pre' = Executed(req, 0)
    /\ UNCHANGED <<notes, kv, rx, crypto_key, passphrase_file, token, srv, sm, trigger,
                   emitted, now, ui_pc, e2e_status, sent, acked, ul, ui_me, inbox, answer,
                   http, refresh_token, pulls, pulled, e2e, login, cmds, cx, cfg>>

\* DbRequest::PullUpsertNotes of a pull, at any moment between the other requests
RunPull ==
    /\ Len(reply) < MaxRequests
    /\ \E n \in BatchNotes, cursor \in Times :
         LET res == pull_upsert_notes([notes |-> notes, kv |-> kv], <<n>>, cursor, 0)
         IN  /\ notes' = res.db.notes
             /\ kv' = res.db.kv
             /\ reply' = Append(reply, [ok |-> res.ok, val |-> ""])
             /\ pre' = Executed(PullUpsertNotesReq(<<n>>, cursor), 0)
    /\ UNCHANGED <<rx, crypto_key, passphrase_file, token, srv, sm, trigger, emitted,
                   now, ui_pc, e2e_status, sent, acked, ul, ui_me, inbox, answer, http,
                   refresh_token, pulls, pulled, e2e, login, cmds, cx, cfg>>

NotesInit ==
    /\ notes = EmptyTable /\ kv = EmptyTable
    /\ rx = <<>> /\ reply = <<>>
    /\ pre = [notes |-> notes, kv |-> kv, req |-> None, failAt |-> 0]
    /\ crypto_key = None /\ passphrase_file = None /\ token = "" /\ srv = NoMe
    /\ sm = SmIdle /\ trigger = 0 /\ emitted = <<>>
    /\ now = 0 /\ ui_pc = "idle" /\ e2e_status = "Disabled" /\ sent = None /\ acked = {}
    /\ ul = UlIdle /\ ui_me = NoMe /\ inbox = <<>>
    /\ answer = "" /\ http = HttpIdle /\ refresh_token = "" /\ pulls = 0 /\ pulled = NoPulled
    /\ e2e = NoSetup /\ login = NoLogin /\ cmds = <<>> /\ cx = NoCall /\ cfg = NoFiles

NotesNext ==
    \/ RunSaveNote
    \/ RunDeleteNote
    \/ RunMarkAsSynced
    \/ RunClearAllData
    \/ RunQuery
    \/ RunPull

SpecNotes == NotesInit /\ [][NotesNext]_vars

----------------------------------------------------------------------------
(* Specification SpecSetup: a paid account without E2E; the user submits the E2E
   setup while the SyncManager runs its attempts
   (main.rs, ActivePane::E2ESetup; sync.rs, try_sync / do_sync / push) *)

\* Tables the setup may find: notes written while E2E was off, live or deleted
SetupTables ==
    { EmptyTable,
      Put(EmptyTable, "n1", Row("a", 1, 0, 0, 0)),
      Put(EmptyTable, "n1", Row("a", 1, 0, 1, 0)),
      Put(Put(EmptyTable, "n1", Row("a", 1, 0, 1, 0)), "n2", Row("c", 1, 1, 1, 0)) }

SetupInit ==
    /\ notes \in SetupTables
    /\ kv = EmptyTable
    /\ rx = <<>> /\ reply = <<>>
    /\ pre = [notes |-> notes, kv |-> kv, req |-> None, failAt |-> 0]
    /\ crypto_key = None /\ passphrase_file = None /\ token = "tok"
    /\ srv = AuthMe("pro", None, None)
    /\ sm = [SmIdle EXCEPT !.pc = "start"] /\ trigger = 0 /\ emitted = <<>>
    /\ now = 1 /\ ui_pc = "ac_get_me" /\ e2e_status = "Disabled" /\ sent = None /\ acked = {}
    /\ ul = UlIdle /\ ui_me = NoMe /\ inbox = <<>>
    /\ answer = "" /\ http = HttpIdle /\ refresh_token = "ref" /\ pulls = 0 /\ pulled = NoPulled
    /\ e2e = NoSetup /\ login = NoLogin /\ cmds = <<>> /\ cx = NoCall /\ cfg = NoFiles

SetupNext ==
    \/ AC_GetMe({FALSE, TRUE})
    \/ E2E_Submit({FALSE, TRUE})
    \/ E2E_Enable({"ok", "error"})
    \/ E2E_SetSalt({FALSE, TRUE})
    \/ E2E_SavePassphrase({FALSE, TRUE})
    \/ E2E_MarkNotes({FALSE, TRUE})
    \/ E2E_Install
    \/ UI_SyncNow
    \/ UI_Trigger
    \/ SM_TrySync
    \/ SM_GetMe({FALSE, TRUE})
    \/ SM_HasKey
    \/ SM_GetSalt
    \/ SM_SetSalt
    \/ SM_PullCursor
    \/ SM_CheckSync({Some(0), None})
    \/ SM_PushUnsynced
    \/ SM_PushKey
    \/ SM_PushEncrypt({FALSE})
    \/ SM_PushPost({"ok", "error"})
    \/ SM_PushMark
    \/ SM_PushDone

SpecSetup == SetupInit /\ [][SetupNext]_vars

----------------------------------------------------------------------------
(* Specification SpecSave: the controller of a program started in offline mode
   (main.rs: no SyncManager task is spawned), with or without a token: the user
   saves the editor and clears all data (save_current_note, perform_clear_all_data) *)

SaveInit ==
    /\ notes \in SetupTables
    /\ kv \in { EmptyTable, set_kv(EmptyTable, "last_synced_at", 1),
                set_kv(set_kv(EmptyTable, "last_synced_at", 1), "encryption_salt", Salt1) }
    /\ rx = <<>> /\ reply = <<>>
    /\ pre = [notes |-> notes, kv |-> kv, req |-> None, failAt |-> 0]
    /\ crypto_key = None /\ passphrase_file = None
    /\ \E logged_in \in BOOLEAN :
         /\ token = IF logged_in THEN "tok" ELSE ""
         /\ refresh_token = IF logged_in THEN "ref" ELSE ""
    /\ srv \in {PaidAccount, AuthMe("free", None, None)}
    /\ sm = SmIdle /\ trigger = 0 /\ emitted = <<>>
    /\ now = 1 /\ ui_pc = "idle"
    /\ e2e_status = IF IsSome(get_kv(kv, "encryption_salt")) THEN "Locked" ELSE "Disabled"
    /\ sent = None /\ acked = {}
    /\ ul = UlIdle /\ ui_me = NoMe /\ inbox = <<>>
    /\ answer = "" /\ http = HttpIdle /\ pulls = 0 /\ pulled = NoPulled
    /\ e2e = NoSetup /\ login = NoLogin /\ cmds = <<>> /\ cx = NoCall /\ cfg = NoFiles

SaveNext ==
    \/ UI_SaveCurrent
    \/ UI_Trigger
    \/ UI_ClearConfirm

SpecSave == SaveInit /\ [][SaveNext]_vars

----------------------------------------------------------------------------
(* Specification SpecRequest: calls of authenticated_request, one after another,
   against a server and a network that answer as they like (sync.rs, APIClient) *)

\* What builder.send().await may give
SendOutcomes == {"200", "401", "403", "500", "neterr"}

\* What POST /auth/refresh and the saving of its answer may give
RefreshOutcomes ==
    { [kind |-> "ok", pair |-> TokenPair(t, "ref2")] : t \in {"tok2", "tok3"} }
       \cup { [kind |-> k, pair |-> TokenPair("tok2", "ref2")] : k \in {"failed", "unsaved"} }

RequestInit ==
    /\ notes = EmptyTable /\ kv = EmptyTable
    /\ rx = <<>> /\ reply = <<>>
    /\ pre = [notes |-> notes, kv |-> kv, req |-> None, failAt |-> 0]
    /\ crypto_key = None /\ passphrase_file = None
    /\ \E stored \in {TokenPair("tok", "ref"), TokenPair("tok", ""), TokenPair("", "")} :
          token = stored.id_token /\ refresh_token = stored.refresh_token
    /\ srv = PaidAccount
    /\ sm = SmIdle /\ trigger = 0 /\ emitted = <<>>
    /\ now = 0 /\ ui_pc = "idle" /\ e2e_status = "Disabled" /\ sent = None /\ acked = {}
    /\ ul = UlIdle /\ ui_me = NoMe /\ inbox = <<>>
    /\ answer = "" /\ http = HttpIdle /\ pulls = 0 /\ pulled = NoPulled /\ e2e = NoSetup /\ login = NoLogin /\ cmds = <<>> /\ cx = NoCall /\ cfg = NoFiles

RequestNext ==
    \/ HTTP_Call
    \/ HTTP_Send(SendOutcomes)
    \/ HTTP_Handle
    \/ HTTP_Refresh(RefreshOutcomes)

SpecRequest == RequestInit /\ [][RequestNext]_vars

----------------------------------------------------------------------------
(* Specification SpecCrypto: a caller of crypto.rs that seals a string and opens
   the payload again under the same key, or hands decrypt a payload that is no
   output of encrypt (crypto.rs, encrypt and decrypt) *)

\* "A" and "é": a code point of one byte and one of two
CodePoints == {65, 233}

\* The strings of at most MaxChars code points
Contents8 == UNION { [1..n -> CodePoints] : n \in 0..MaxChars }

\* &[u8; 32]
Keys32 == { [i \in 1..KEY_LEN |-> b] : b \in {7, 200} }

\* generate_nonce: NONCE_LEN bytes
Nonces12 == { [i \in 1..NONCE_LEN |-> n] : n \in Nonces }

\* Byte strings that no encrypt has produced, of every length up to that of the
\* payload of the empty string
ForeignBytes == { [i \in 1..n |-> b] : n \in 0..(NONCE_LEN + TAG_LEN), b \in {0, 255} }

CryptoInit ==
    /\ \E content \in Contents8, key \in Keys32 :
          cx = [NoCall EXCEPT !.pc = "ready", !.content = content, !.key = key]
    /\ notes = EmptyTable /\ kv = EmptyTable /\ rx = <<>> /\ reply = <<>>
    /\ pre = [notes |-> notes, kv |-> kv, req |-> None, failAt |-> 0]
    /\ crypto_key = None /\ passphrase_file = None /\ token = "" /\ srv = NoMe
    /\ sm = SmIdle /\ trigger = 0 /\ emitted = <<>>
    /\ now = 0 /\ ui_pc = "idle" /\ e2e_status = "Disabled" /\ sent = None /\ acked = {}
    /\ ul = UlIdle /\ ui_me = NoMe /\ inbox = <<>>
    /\ answer = "" /\ http = HttpIdle /\ refresh_token = "" /\ pulls = 0 /\ pulled = NoPulled
    /\ e2e = NoSetup /\ login = NoLogin /\ cmds = <<>> /\ cfg = NoFiles

\* crypto::encrypt(&content, &key)
Cx_Encrypt ==
    /\ cx.pc = "ready"
    /\ \E nonce \in Nonces12 :
          cx' = [cx EXCEPT !.payload = encrypt_b64(cx.content, cx.key, nonce), !.pc = "sealed"]
    /\ UNCHANGED <<notes, kv, rx, reply, pre, crypto_key, passphrase_file, token, srv,
                   sm, trigger, emitted, now, ui_pc, e2e_status, sent, acked, ul, ui_me, inbox,
                   answer, http, refresh_token, pulls, pulled, e2e, login, cmds, cfg>>

\* crypto::decrypt(&payload, &key) of the payload encrypt returned
Cx_Decrypt ==
    /\ cx.pc = "sealed"
    /\ cx' = [cx EXCEPT !.out = decrypt_b64(cx.payload, cx.key), !.pc = "opened"]
    /\ UNCHANGED <<notes, kv, rx, reply, pre, crypto_key, passphrase_file, token, srv,
                   sm, trigger, emitted, now, ui_pc, e2e_status, sent, acked, ul, ui_me, inbox,
                   answer, http, refresh_token, pulls, pulled, e2e, login, cmds, cfg>>

\* crypto::decrypt(&payload, &key) of the Base64 of foreign bytes
Cx_DecryptForeign ==
    /\ cx.pc = "ready"
    /\ \E raw \in ForeignBytes :
          cx' = [cx EXCEPT !.raw = raw, !.payload = b64_encode(raw),
                           !.out = decrypt_b64(b64_encode(raw), cx.key), !.pc = "foreign"]
    /\ UNCHANGED <<notes, kv, rx, reply, pre, crypto_key, passphrase_file, token, srv,
                   sm, trigger, emitted, now, ui_pc, e2e_status, sent, acked, ul, ui_me, inbox,
                   answer, http, refresh_token, pulls, pulled, e2e, login, cmds, cfg>>

CryptoNext ==
    \/ Cx_Encrypt
    \/ Cx_Decrypt
    \/ Cx_DecryptForeign

SpecCrypto == CryptoInit /\ [][CryptoNext]_vars

----------------------------------------------------------------------------
(* Specification SpecActor: the Repo actor and its callers.  Tasks send
   DbRequests into the unbounded channel, each with the Sender of a oneshot
   channel, and await the Receiver; a caller that is dropped while it awaits
   closes its oneshot channel.  The actor thread takes one request at a time
   (db.rs, Repo::new and RepoInternal::run). *)

\* The requests the callers of the model send
ActorCommands ==
    { [cmd |-> "MarkAsSynced", id |-> "n1"],
      [cmd |-> "SetKV", key |-> "last_synced_at", value |-> MaxTime],
      [cmd |-> "ClearAllData"],
      PullUpsertNotesReq(<<Note("n1", "b", 1, 0, 1, 0)>>, 1) }

\* RepoInternal::run, the match on one request: the tables after it and its result
run(db, req) ==
    IF req.cmd = "MarkAsSynced"
    THEN [db |-> [db EXCEPT !.notes = mark_as_synced(db.notes, req.id)], ok |-> TRUE]
    ELSE IF req.cmd = "SetKV"
    THEN [db |-> [db EXCEPT !.kv = set_kv(db.kv, req.key, req.value)], ok |-> TRUE]
    ELSE IF req.cmd = "ClearAllData"
    THEN clear_all_data(db, 0)
    ELSE pull_upsert_notes(db, req.notes, req.cursor, 0)

\* The tables when the program starts: one local note, not yet synced
ActorDb == [notes |-> Put(EmptyTable, "n1", Row("a", 0, 0, 0, 0)), kv |-> EmptyTable]

ActorInit ==
    /\ notes = ActorDb.notes /\ kv = ActorDb.kv
    /\ rx = <<>> /\ reply = <<>> /\ cmds = <<>>
    /\ pre = [notes |-> notes, kv |-> kv, req |-> None, failAt |-> 0]
    /\ crypto_key = None /\ passphrase_file = None /\ token = "" /\ srv = NoMe
    /\ sm = SmIdle /\ trigger = 0 /\ emitted = <<>>
    /\ now = 0 /\ ui_pc = "idle" /\ e2e_status = "Disabled" /\ sent = None /\ acked = {}
    /\ ul = UlIdle /\ ui_me = NoMe /\ inbox = <<>>
    /\ answer = "" /\ http = HttpIdle /\ refresh_token = "" /\ pulls = 0 /\ pulled = NoPulled
    /\ e2e = NoSetup /\ login = NoLogin /\ cx = NoCall /\ cfg = NoFiles

\* Repo::<method>: self.tx.send(DbRequest {.., reply}), after which the caller
\* awaits.  `cmds` keeps the requests in the order of their sends, `seq` numbers
\* them.
Repo_Send ==
    /\ Len(cmds) < MaxRequests
    /\ \E req \in ActorCommands :
          /\ rx' = Append(rx, [seq |-> Len(cmds) + 1, req |-> req, open |-> TRUE])
          /\ cmds' = Append(cmds, req)
    /\ UNCHANGED <<notes, kv, reply, pre, crypto_key, passphrase_file, token, srv,
                   sm, trigger, emitted, now, ui_pc, e2e_status, sent, acked, ul, ui_me, inbox,
                   answer, http, refresh_token, pulls, pulled, e2e, login, cx, cfg>>

\* The future of a caller is dropped while it awaits its reply: the Receiver of
\* its oneshot channel is gone
Caller_Drop ==
    /\ \E i \in 1..Len(rx) :
          /\ rx[i].open
          /\ rx' = [rx EXCEPT ![i].open = FALSE]
    /\ UNCHANGED <<notes, kv, reply, pre, crypto_key, passphrase_file, token, srv,
                   sm, trigger, emitted, now, ui_pc, e2e_status, sent, acked, ul, ui_me, inbox,
                   answer, http, refresh_token, pulls, pulled, e2e, login, cmds, cx, cfg>>

\* The actor takes the request sent last.
Actor_RunNewestFirst ==
    /\ rx # <<>>
    /\ LET m == rx[Len(rx)]
           res == run([notes |-> notes, kv |-> kv], m.req)
       IN  /\ notes' = res.db.notes
           /\ kv' = res.db.kv
           /\ reply' = Append(reply, [seq |-> m.seq, ok |-> res.ok, delivered |-> m.open])
           /\ pre' = Executed(m.req, 0)
    /\ rx' = SubSeq(rx, 1, Len(rx) - 1)
    /\ UNCHANGED <<crypto_key, passphrase_file, token, srv, sm, trigger, emitted, now, ui_pc,
                   e2e_status, sent, acked, ul, ui_me, inbox, answer, http, refresh_token,
                   pulls, pulled, e2e, login, cmds, cx, cfg>>

\* RepoInternal::run, one turn of the loop: blocking_recv gives the oldest request,
\* the match executes it, `let _ = reply.send(..)` delivers the result to a caller
\* that still awaits and drops it otherwise
Actor_Run ==
    /\ rx # <<>>
    /\ LET m == Head(rx)
           res == run([notes |-> notes, kv |-> kv], m.req)
       IN  /\ notes' = res.db.notes
           /\ kv' = res.db.kv
           /\ reply' = Append(reply, [seq |-> m.seq, ok |-> res.ok, delivered |-> m.open])
           /\ pre' = Executed(m.req, 0)
    /\ rx' = Tail(rx)
    /\ UNCHANGED <<crypto_key, passphrase_file, token, srv, sm, trigger, emitted, now, ui_pc,
                   e2e_status, sent, acked, ul, ui_me, inbox, answer, http, refresh_token,
                   pulls, pulled, e2e, login, cmds, cx, cfg>>

ActorNext ==
    \/ Repo_Send
    \/ Caller_Drop
    \/ Actor_Run

SpecActor == ActorInit /\ [][ActorNext]_vars

----------------------------------------------------------------------------
(* Specification SpecConfig: $HOME/.risu/config.toml, which the user may edit with
   any program, under load_config and set_offline_mode (config.rs).  The text of
   a file is a sequence of lines: a table header, a key with its value, a line
   that is no TOML, or bytes that are no UTF-8. *)

Header(name) == [k |-> "header", name |-> name, val |-> ""]
KeyVal(key, val) == [k |-> "kv", name |-> key, val |-> val]
Junk == [k |-> "junk", name |-> "", val |-> ""]
BadUtf8 == [k |-> "bad_utf8", name |-> "", val |-> ""]

\* AppConfig::default(): offline_mode false and the colours of ThemeConfig::default()
DefaultConfig == [offline_mode |-> FALSE, theme |-> "default"]

\* toml::to_string_pretty(&config)
to_string_pretty(config) ==
    <<Header("general"),
      KeyVal("offline_mode", IF config.offline_mode THEN "true" ELSE "false"),
      Header("theme"),
      KeyVal("colors", config.theme)>>

\* fs::read_to_string: an error for a file that is not UTF-8
read_to_string(text) ==
    IF \E i \in 1..Len(text) : text[i].k = "bad_utf8" THEN Fail("read") ELSE Done(text)

\* toml::from_str::<AppConfig>: an error for a line that is no TOML and for an
\* offline_mode that is no boolean; a table or a key that is missing takes its
\* #[serde(default)]
from_str(text) ==
    IF \E i \in 1..Len(text) :
          \/ text[i].k \in {"junk", "bad_utf8"}
          \/ text[i].k = "kv" /\ text[i].name = "offline_mode" /\ text[i].val \notin {"true", "false"}
    THEN Fail("parse")
    ELSE Done([offline_mode |-> \E i \in 1..Len(text) : text[i] = KeyVal("offline_mode", "true"),
               theme |-> IF \E i \in 1..Len(text) : text[i].k = "kv" /\ text[i].name = "colors"
                         THEN (CHOOSE l \in { text[i] : i \in 1..Len(text) } :
                                  l.k = "kv" /\ l.name = "colors").val
                         ELSE "default"])

\* What an editor may leave in config.toml
ConfigTexts ==
    { to_string_pretty(DefaultConfig),
      to_string_pretty([offline_mode |-> TRUE, theme |-> "light"]),
      <<>>,
      <<Header("general"), KeyVal("offline_mode", "true")>>,
      <<Header("general"), KeyVal("offline_mode", "yes")>>,
      <<Junk>>,
      <<Header("general"), KeyVal("offline_mode", "true"), BadUtf8>>,
      <<BadUtf8>> }

\* load_config on the files fs: the files after it and the AppConfig returned.
\* `rename_fails` and `write_fails` tell whether fs::rename and the write of the
\* first file fail; both failures are only reported.
load_config(fs, rename_fails, write_fails) ==
    IF fs.file = <<>>
    THEN [fs |-> [fs EXCEPT !.file = IF write_fails THEN <<>>
                                     ELSE <<to_string_pretty(DefaultConfig)>>],
          renamed |-> "no", out |-> DefaultConfig]
    ELSE LET content == read_to_string(fs.file[1])
         IN  IF ~content.ok
             THEN [fs |-> fs, renamed |-> "no", out |-> DefaultConfig]
             ELSE IF from_str(content.val).ok
             THEN [fs |-> fs, renamed |-> "no", out |-> from_str(content.val).val]
             ELSE IF rename_fails
             THEN [fs |-> fs, renamed |-> "failed", out |-> DefaultConfig]
             ELSE [fs |-> [fs EXCEPT !.file = <<>>, !.bak = fs.file],
                   renamed |-> "yes", out |-> DefaultConfig]

\* config::load_config()
Cfg_LoadConfig ==
    /\ \E rename_fails \in BOOLEAN, write_fails \in BOOLEAN :
          LET res == load_config([file |-> cfg.file, bak |-> cfg.bak], rename_fails, write_fails)
          IN  cfg' = [file |-> res.fs.file, bak |-> res.fs.bak,
                      last |-> [op |-> "load_config", offline |-> FALSE, found |-> cfg.file,
                                renamed |-> res.renamed, out |-> <<res.out>>, ok |-> TRUE]]
    /\ UNCHANGED <<notes, kv, rx, reply, pre, crypto_key, passphrase_file, token, srv,
                   sm, trigger, emitted, now, ui_pc, e2e_status, sent, acked, ul, ui_me, inbox,
                   answer, http, refresh_token, pulls, pulled, e2e, login, cmds, cx>>

\* config::set_offline_mode(offline): load_config, the field, then the file is
\* opened with truncate and written; `open_fails` is an error of open
Cfg_SetOfflineMode ==
    /\ \E offline \in BOOLEAN, rename_fails \in BOOLEAN, open_fails \in BOOLEAN :
          LET res == load_config([file |-> cfg.file, bak |-> cfg.bak], rename_fails, open_fails)
              config == [res.out EXCEPT !.offline_mode = offline]
          IN  cfg' = [file |-> IF open_fails THEN res.fs.file ELSE <<to_string_pretty(config)>>,
                      bak |-> res.fs.bak,
                      last |-> [op |-> "set_offline_mode", offline |-> offline, found |-> cfg.file,
                                renamed |-> res.renamed, out |-> <<config>>, ok |-> ~open_fails]]
    /\ UNCHANGED <<notes, kv, rx, reply, pre, crypto_key, passphrase_file, token, srv,
                   sm, trigger, emitted, now, ui_pc, e2e_status, sent, acked, ul, ui_me, inbox,
                   answer, http, refresh_token, pulls, pulled, e2e, login, cmds, cx>>

\* The user saves config.toml from an editor, or removes it
Usr_Edit ==
    /\ \E text \in {<<>>} \cup { <<t>> : t \in ConfigTexts } :
          /\ text # cfg.file
          /\ cfg' = [NoFiles EXCEPT !.file = text, !.bak = cfg.bak]
    /\ UNCHANGED <<notes, kv, rx, reply, pre, crypto_key, passphrase_file, token, srv,
                   sm, trigger, emitted, now, ui_pc, e2e_status, sent, acked, ul, ui_me, inbox,
                   answer, http, refresh_token, pulls, pulled, e2e, login, cmds, cx>>

ConfigInit ==
    /\ cfg = NoFiles
    /\ notes = EmptyTable /\ kv = EmptyTable /\ rx = <<>> /\ reply = <<>>
    /\ pre = [notes |-> notes, kv |-> kv, req |-> None, failAt |-> 0]
    /\ crypto_key = None /\ passphrase_file = None /\ token = "" /\ srv = NoMe
    /\ sm = SmIdle /\ trigger = 0 /\ emitted = <<>>
    /\ now = 0 /\ ui_pc = "idle" /\ e2e_status = "Disabled" /\ sent = None /\ acked = {}
    /\ ul = UlIdle /\ ui_me = NoMe /\ inbox = <<>>
    /\ answer = "" /\ http = HttpIdle /\ refresh_token = "" /\ pulls = 0 /\ pulled = NoPulled
    /\ e2e = NoSetup /\ login = NoLogin /\ cmds = <<>> /\ cx = NoCall

ConfigNext ==
    \/ Cfg_LoadConfig
    \/ Cfg_SetOfflineMode
    \/ Usr_Edit

SpecConfig == ConfigInit /\ [][ConfigNext]_vars

----------------------------------------------------------------------------
(* Claims about PullUpsertNotes, checked under SpecRepo *)

LastReq == Unwrap(pre.req)
LastOk == reply[Len(reply)]
RanPullUpsert == IsSome(pre.req) /\ LastReq.cmd = "PullUpsertNotes"

\* The entries of a batch for one id
EntriesFor(batch, id) == { i \in 1..Len(batch) : batch[i].id = id }

\* The row a batch entry becomes when it is written
RowOf(n) == Row(n.content, n.updated_at, n.is_deleted, 1, n.is_encrypted)

\* C3: PullUpsertNotes is all-or-nothing.  When a statement or the commit fails
\* (or the process stops before the commit) the notes table and the kv_store are
\* exactly as before the command; when it succeeds the cursor is written and every
\* note of the batch is visible: its row exists and is at least as new as the note.
C3_AllOrNothing ==
    RanPullUpsert =>
        IF LastOk
        THEN /\ get_kv(kv, "last_synced_at") = Some(LastReq.cursor)
             /\ \A i \in 1..Len(LastReq.notes) :
                    /\ LastReq.notes[i].id \in DOMAIN notes
                    /\ notes[LastReq.notes[i].id].updated_at >= LastReq.notes[i].updated_at
        ELSE /\ notes = pre.notes
             /\ kv = pre.kv

\* C3 witness: the commit failed after two upserts that would have changed two
\* rows and after the cursor write, and the tables are as they were.
C3_Witness ==
    /\ RanPullUpsert /\ ~LastOk
    /\ Len(LastReq.notes) = 2
    /\ pre.failAt = Len(LastReq.notes) + 2
    /\ LastReq.notes[1].id = "n1" /\ "n1" \notin DOMAIN pre.notes
    /\ LastReq.notes[2].id = "n2" /\ "n2" \in DOMAIN pre.notes
    /\ LastReq.notes[2].updated_at > pre.notes["n2"].updated_at
    /\ get_kv(pre.kv, "last_synced_at") # Some(LastReq.cursor)
    /\ notes = pre.notes /\ kv = pre.kv

\* C4: PullUpsertNotes is idempotent.  When the same command (batch, cursor) has
\* run twice in a row, both times with success, the second run left the notes
\* table and the kv_store exactly as the first run left them.
C4_Idempotent ==
    (Len(reply) = 2 /\ reply[1] /\ reply[2]) => (notes = pre.notes /\ kv = pre.kv)

\* C4 witness: a batch that repeats a note id, older version first, has run twice
\* and the row holds the newer version of the batch.
C4_Witness ==
    /\ Len(reply) = 2 /\ reply[1] /\ reply[2]
    /\ Len(LastReq.notes) = 2
    /\ LastReq.notes[1].id = LastReq.notes[2].id
    /\ LastReq.notes[1].updated_at < LastReq.notes[2].updated_at
    /\ notes[LastReq.notes[2].id] = RowOf(LastReq.notes[2])

\* C5: strict last-writer-wins.  After a successful PullUpsertNotes, for every id:
\* a row that existed and met no incoming note with a strictly later updated_at is
\* unchanged in every column; a row that changed now equals an incoming note of
\* the batch whose updated_at is strictly later than the old row's, with
\* is_synced = 1; an id that was absent and is in the batch is now present as an
\* incoming note with is_synced = 1; an id that was absent and is not in the batch
\* is still absent.
C5_StrictLastWriterWins ==
    (RanPullUpsert /\ LastOk) =>
        \A id \in NoteIds :
            LET es == EntriesFor(LastReq.notes, id)
            IN  IF id \in DOMAIN pre.notes
                THEN /\ id \in DOMAIN notes
                     /\ (\A i \in es : LastReq.notes[i].updated_at <= pre.notes[id].updated_at)
                            => notes[id] = pre.notes[id]
                     /\ notes[id] # pre.notes[id] =>
                            \E i \in es :
                                /\ LastReq.notes[i].updated_at > pre.notes[id].updated_at
                                /\ notes[id] = RowOf(LastReq.notes[i])
                ELSE IF es = {}
                     THEN id \notin DOMAIN notes
                     ELSE /\ id \in DOMAIN notes
                          /\ \E i \in es : notes[id] = RowOf(LastReq.notes[i])

\* C5 witness: an unsynced local row met an incoming note with the same updated_at
\* and kept its columns, while another row met a strictly later note and was
\* overwritten with is_synced = 1.
C5_Witness ==
    /\ RanPullUpsert /\ LastOk /\ Len(reply) = 1
    /\ Len(LastReq.notes) = 2
    /\ LastReq.notes[1].id = "n1" /\ LastReq.notes[2].id = "n2"
    /\ "n1" \in DOMAIN pre.notes /\ "n2" \in DOMAIN pre.notes
    /\ pre.notes["n1"].is_synced = 0 /\ pre.notes["n1"].is_encrypted = 1
    /\ pre.notes["n1"].updated_at = LastReq.notes[1].updated_at
    /\ notes["n1"] = pre.notes["n1"]
    /\ pre.notes["n2"].updated_at < LastReq.notes[2].updated_at
    /\ notes["n2"] = RowOf(LastReq.notes[2])

----------------------------------------------------------------------------
(* Claims about pull, checked under SpecPull *)

PulledPage == IsSome(pre.req) /\ LastReq.cmd = "PullPage"

\* The table holds the change, or a newer version of its note
Applied(n) == n.id \in DOMAIN notes /\ notes[n.id].updated_at >= n.updated_at

\* The change is marked encrypted and opens under the key of the account
Usable(n) == n.is_encrypted = 1 /\ decrypt(n.content, Key1).ok

SameRow(id) ==
    /\ id \in DOMAIN notes <=> id \in DOMAIN pre.notes
    /\ id \in DOMAIN notes => notes[id] = pre.notes[id]

\* C1: whenever pull has returned successfully (the attempt goes on to push), the
\* stored last_synced_at is at least the value it had when that pull began.
C1_CursorMonotonic ==
    sm.pc = "push_unsynced" => get_cursor(kv) >= sm.begin_cursor

\* C2 as stated: after the writes of a page, either every note of the page is in
\* the table and last_synced_at is the page's next_cursor, or the table and the
\* cursor are as they were before the page.
C2_Original ==
    PulledPage =>
        \/ /\ \A i \in 1..Len(LastReq.res.changes) : Applied(LastReq.res.changes[i])
           /\ get_kv(kv, "last_synced_at") = Some(LastReq.res.next_cursor)
        \/ notes = pre.notes /\ kv = pre.kv

\* C2: after the writes of a page, either every change of the page that is marked
\* encrypted and opens under the key is in the table (or a newer version is), the
\* notes no such change names are untouched, and last_synced_at is the page's
\* next_cursor if the page had any change at all (changes marked plaintext or
\* failing decryption are dropped, an empty page writes nothing); or the table
\* and the cursor are as they were before the page.
C2_AtomicPage ==
    PulledPage =>
        LET changes == LastReq.res.changes
            usable == { i \in 1..Len(changes) : Usable(changes[i]) }
        IN  \/ /\ \A i \in usable : Applied(changes[i])
               /\ \A id \in NoteIds : (\A i \in usable : changes[i].id # id) => SameRow(id)
               /\ IF changes # <<>>
                  THEN kv = set_kv(pre.kv, "last_synced_at", LastReq.res.next_cursor)
                  ELSE kv = pre.kv
            \/ notes = pre.notes /\ kv = pre.kv

\* A page with a usable and an unusable change was written and moved the cursor
C2_Witness ==
    /\ PulledPage
    /\ pre.failAt = 0
    /\ \E i, j \in 1..Len(LastReq.res.changes) :
          /\ Usable(LastReq.res.changes[i])
          /\ ~Usable(LastReq.res.changes[j])
          /\ ~Applied(LastReq.res.changes[j])
    /\ notes # pre.notes
    /\ kv # pre.kv

----------------------------------------------------------------------------
(* Claims about push, checked under SpecPush *)

\* A body is the output of encrypt under the key, for some nonce
SealedUnder(b, key) ==
    /\ b.is_encrypted = 1
    /\ \E nonce \in Nonces : b.content = encrypt(b.content.text, key, nonce)
    /\ PayloadLen(b.content) >= NONCE_LEN
    /\ b.content # PlainPayload(b.content.text)

\* C6: every body handed to POST /sync/push, and every body that was sent, has
\* is_encrypted = 1 and a content that is the output of encrypt under the key of
\* the KeyStore (at least 12 bytes), never the plaintext; without a key in the
\* snapshot push has taken, no body is built.
C6_CiphertextOnly ==
    /\ sm.pc = "push_post" =>
          /\ IsSome(sm.key_opt)
          /\ SealedUnder(Unwrap(sm.body), Unwrap(sm.key_opt))
    /\ IsSome(sent) => SealedUnder(Unwrap(sent), Key1)

\* A tombstone of a note stored as plaintext was sent, sealed
C6_Witness ==
    /\ IsSome(sent)
    /\ Unwrap(sent).is_deleted = 1
    /\ Unwrap(sent).id \in DOMAIN notes
    /\ notes[Unwrap(sent).id].is_encrypted = 0

\* C7: no step gives is_synced = 1 to a local version of a note (a row the step
\* does not otherwise change) unless POST /sync/push has answered 200 for a body
\* carrying that version.
C7_SyncedOnlyIfAcked ==
    [][\A id \in DOMAIN notes :
          (/\ id \in DOMAIN notes'
           /\ notes[id].is_synced = 0
           /\ notes'[id] = [notes[id] EXCEPT !.is_synced = 1])
          => VersionOf(id, notes[id].content, notes[id].updated_at, notes[id].is_deleted)
                \in acked']_vars

\* C8: when push builds the body for a note of its list, the body carries the
\* content, updated_at and is_deleted the row of that note holds at that moment
\* (the re-read by get_note), whatever the list says.
C8_PushSendsLatest ==
    [][(sm.pc = "push_loop" /\ sm'.pc = "push_post") =>
          LET id == Head(sm.unsynced).id
              b == Unwrap(sm'.body)
          IN  /\ b.id = id
              /\ b.content.text = notes[id].content
              /\ b.updated_at = notes[id].updated_at
              /\ b.is_deleted = notes[id].is_deleted]_vars

\* A body was built for a note that was edited after the list was read
C8_Witness ==
    /\ sm.pc = "push_post"
    /\ Head(sm.unsynced).id = Unwrap(sm.body).id
    /\ Head(sm.unsynced).updated_at < Unwrap(sm.body).updated_at
    /\ Head(sm.unsynced).content # Unwrap(sm.body).content.text

----------------------------------------------------------------------------
(* Claims about unlock and the free-plan cleanup, checked under SpecAccount *)

\* C9: while the server holds a validator for the account, a step of the unlock
\* task changes the KeyStore only by installing a key that decrypts that
\* validator to exactly "RISU-VALID".
C9_OnlyValidatedKey ==
    [][(IsSome(srv.encryption_validator) /\ ul' # ul /\ crypto_key' # crypto_key)
          => /\ IsSome(crypto_key')
             /\ decrypt(Unwrap(srv.encryption_validator), Unwrap(crypto_key')) = Ok(RISU_VALID)]_vars

\* C10: when a sync attempt or an account check that observed a plan without
\* sync ends, the encryption_salt entry is absent, the passphrase file is absent
\* and the KeyStore is empty.
C10_FreePlanCleanup ==
    [][(\/ sm.pc \in {"free_get_salt", "free_clear_key"} /\ sm'.pc = "idle"
        \/ ui_pc \in {"ac_free_get_salt", "ac_free_clear_key"} /\ ui_pc' = "idle")
          => /\ get_kv(kv', "encryption_salt") = None
             /\ passphrase_file' = None
             /\ crypto_key' = None]_vars

\* The steps of an attempt after the gate: the requests of pull and push
InSync ==
    sm.pc \in {"pull_cursor", "check_sync", "pull_key", "pull_changes", "pull_apply",
               "push_unsynced", "push_key", "push_loop", "push_post", "push_mark"}

C12_SaltRecovery ==
    [][(sm.pc = "set_salt" /\ sm'.pc # "set_salt" /\ sm.has_key)
          => (sm'.pc = "pull_cursor" /\ emitted' = <<"Syncing">>)]_vars

\* C13: when POST /sync/push answers 403 during an attempt, the status events of the
\* attempt are exactly Syncing and then PaymentRequired, the attempt ends there with
\* nothing more sent, no row is written, and the rejected note and the notes not yet
\* pushed keep is_synced = 0.
C13_PaymentRequired ==
    [][(sm.pc = "push_post" /\ sm'.pc # "push_post" /\ answer' = "forbidden") =>
          /\ sm'.pc = "idle"
          /\ emitted' = <<"Syncing", "PaymentRequired">>
          /\ sent' = sm.body
          /\ notes' = notes
          /\ \A i \in 1..Len(sm.unsynced) :
                sm.unsynced[i].id \in DOMAIN notes' =>
                   notes'[sm.unsynced[i].id].is_synced = 0
      ]_vars

\* C13 witness: the first of two unsynced notes was accepted and marked, the second
\* was answered 403, and the attempt ended with PaymentRequired
C13_Witness ==
    /\ answer = "forbidden"
    /\ sm.pc = "idle"
    /\ emitted = <<"Syncing", "PaymentRequired">>
    /\ \E a, b \in DOMAIN notes :
          /\ notes[a].is_synced = 1 /\ (\E v \in acked : v.id = a)
          /\ notes[b].is_synced = 0 /\ sent # None /\ Unwrap(sent).id = b
\* C14: one call of authenticated_request sends at most 3 requests, whatever network
\* errors, 5xx and 401 it meets; a network error or a 5xx is followed by another
\* send only while fewer than 3 attempts were made, and after the third it is
\* returned; a 4xx other than 401 is returned at once, with no further send.
C14_BoundedRetry ==
    [][/\ Len(http'.sends) <= 3
       /\ http'.attempts = Len(http'.sends)
       /\ (http.pc = "handle" /\ http'.pc = "send") =>
             (http.resp \in {"neterr", "500"} /\ http.attempts < 3)
       /\ (http.pc = "handle" /\ http'.pc # "handle"
              /\ http.resp \in {"neterr", "500"} /\ http.attempts >= 3) =>
             (http'.pc = "done" /\ http'.result = http.resp)
       /\ (http.pc = "handle" /\ http'.pc # "handle" /\ http.resp = "403") =>
             (http'.pc = "done" /\ http'.result = "403" /\ http'.sends = http.sends)
      ]_vars

\* C14 witness: a call that was answered 401, refreshed, and then met a 5xx and a
\* network error returned after its third send
C14_Witness ==
    /\ http.pc = "done"
    /\ Len(http.sends) = 3
    /\ http.refreshes = 1
    /\ http.result = "neterr"

\* C15: within one call POST /auth/refresh is sent at most once, and only after the
\* first attempt was answered 401; when it succeeds the pair it answered is in the
\* token file before the retry, and the retry carries the new id_token; a 401 on a
\* later attempt, or a failed refresh, returns the 401 with no other refresh.
C15_RefreshOn401 ==
    [][/\ http'.refreshes <= 1
       /\ (http'.refreshes > http.refreshes) =>
             (http.pc = "refresh" /\ http.attempts = 1 /\ http.resp = "401")
       /\ (http.pc = "refresh" /\ http'.pc = "send") =>
             /\ IsSome(http'.issued)
             /\ token' = Unwrap(http'.issued).id_token
             /\ refresh_token' = Unwrap(http'.issued).refresh_token
       /\ (http.pc = "send" /\ http'.pc = "handle" /\ http.refreshes = 1) =>
             http'.sends[Len(http'.sends)] = Unwrap(http.issued).id_token
       /\ (http.pc = "handle" /\ http'.pc # "handle" /\ http.resp = "401"
              /\ http.attempts > 1) =>
             (http'.pc = "done" /\ http'.result = "401" /\ http'.refreshes = http.refreshes)
       /\ (http.pc = "refresh" /\ http'.pc \notin {"refresh", "send"}) =>
             (http'.pc = "done" /\ http'.result = "401" /\ http'.sends = http.sends)
      ]_vars

\* C15 witness: the first attempt carried the old id_token and was answered 401, the
\* refresh succeeded, the retry carried the new id_token and was answered 401 again,
\* which the call returned after one refresh
C15_Witness ==
    /\ http.pc = "done"
    /\ http.result = "401"
    /\ http.refreshes = 1
    /\ Len(http.sends) = 2
    /\ IsSome(http.issued)
    /\ http.sends[1] = "tok"
    /\ http.sends[2] = Unwrap(http.issued).id_token
    /\ token = http.sends[2] /\ token # "tok"
\* C16: one pull sends at most 100 GET /sync/pull, whatever the server answers; it
\* goes on to another page only after a page with has_more = true whose next_cursor
\* differs from the cursor it was asked with; and when /sync/check reports a time
\* not after the local cursor, pull returns having sent no /sync/pull and written
\* nothing.
C16_PullTerminates ==
    [][/\ pulls' <= 100
       /\ (pulls' # pulls /\ sm.pc # "pull_cursor") =>
             (pulls' = pulls + 1 /\ sm.pc = "pull_changes" /\ sm.server_time > sm.begin_cursor)
       /\ (sm.pc = "pull_apply" /\ sm'.pc = "pull_changes") =>
             (sm.res.has_more /\ sm.res.next_cursor # sm.current_cursor)
       /\ (sm.pc = "check_sync" /\ sm'.pc \notin {"check_sync", "idle"}
              /\ sm'.server_time <= sm.begin_cursor) =>
             (sm'.pc = "push_unsynced" /\ pulls' = 0 /\ notes' = notes /\ kv' = kv)
      ]_vars

\* C16 witness: the server still says has_more after the 100th page, with a cursor
\* that moved again, and pull has returned
C16_Witness ==
    /\ pulls = 100
    /\ sm.pc = "push_unsynced"
    /\ sm.res.has_more
    /\ sm.res.next_cursor # sm.begin_cursor
\* The row is what pull stores for the change: the change opens under the key and
\* the row holds its plaintext, its timestamp and is_encrypted = 0
StoredFrom(row, c) ==
    /\ c.is_encrypted = 1
    /\ decrypt(c.content, Key1).ok
    /\ row.content = decrypt(c.content, Key1).val
    /\ row.updated_at = c.updated_at
    /\ row.is_deleted = c.is_deleted
    /\ row.is_encrypted = 0

\* C17: after the writes of a page, every row of the notes table is as it was before
\* the page, or is the decrypted form (plaintext content, is_encrypted = 0) of a
\* change of the page that is marked is_encrypted = 1; no change marked
\* is_encrypted = 0 is the origin of a row, whatever else is in its page.
C17_NoPlaintextAccepted ==
    /\ \A id \in DOMAIN notes : notes[id].is_encrypted = 0
    /\ PulledPage =>
          \A id \in DOMAIN notes :
             \/ (id \in DOMAIN pre.notes /\ notes[id] = pre.notes[id])
             \/ \E i \in 1..Len(LastReq.res.changes) :
                   /\ LastReq.res.changes[i].id = id
                   /\ StoredFrom(notes[id], LastReq.res.changes[i])

\* C17 witness: a page carried a plaintext change of n1 newer than an encrypted
\* change of n1 in the same page; the encrypted one was written, the plaintext not
C17_Witness ==
    /\ PulledPage
    /\ pre.failAt = 0
    /\ "n1" \in DOMAIN notes /\ "n1" \notin DOMAIN pre.notes
    /\ \E i, j \in 1..Len(LastReq.res.changes) :
          /\ LastReq.res.changes[i].is_encrypted = 0
          /\ LastReq.res.changes[i].id = "n1"
          /\ LastReq.res.changes[i].updated_at > notes["n1"].updated_at
          /\ StoredFrom(notes["n1"], LastReq.res.changes[j])
\* The change is marked encrypted and does not open under the key of the account
Undecryptable(c) == c.is_encrypted = 1 /\ ~decrypt(c.content, Key1).ok

\* C18: when a page holds an encrypted change that fails to decrypt and the writes
\* of the page meet no database error, the pull goes on without an Error status,
\* every change of the page that decrypts was handed to the one PullUpsertNotes call
\* and is in the table (or a newer version is), and the row of the undecryptable
\* change is as it was, unless a decryptable change of the same page wrote it.
C18_IntegrityPerNote ==
    [][(/\ sm.pc = "pull_apply" /\ sm'.pc # "pull_apply"
        /\ pre'.failAt = 0
        /\ \E j \in 1..Len(sm.res.changes) : Undecryptable(sm.res.changes[j])) =>
          LET changes == sm.res.changes
              usable == { i \in 1..Len(changes) : Usable(changes[i]) }
          IN  /\ sm'.pc \in {"pull_changes", "push_unsynced"}
              /\ emitted' = emitted
              /\ Len(Unwrap(pre'.req).notes) = Cardinality(usable)
              /\ \A i \in usable :
                    /\ changes[i].id \in DOMAIN notes'
                    /\ notes'[changes[i].id].updated_at >= changes[i].updated_at
              /\ \A j \in 1..Len(changes) :
                    Undecryptable(changes[j]) =>
                       LET id == changes[j].id
                       IN  \/ /\ id \in DOMAIN notes' <=> id \in DOMAIN notes
                              /\ id \in DOMAIN notes' => notes'[id] = notes[id]
                           \/ \E i \in usable :
                                 changes[i].id = id /\ StoredFrom(notes'[id], changes[i])
      ]_vars

\* C18 witness: a page held an undecryptable change of n1 and a decryptable change
\* of n2; n2 was written, n1 was not, and the pull went on
C18_Witness ==
    /\ PulledPage
    /\ pre.failAt = 0
    /\ sm.pc \in {"pull_changes", "push_unsynced"}
    /\ sm.res = LastReq.res
    /\ \E i, j \in 1..Len(LastReq.res.changes) :
          /\ Undecryptable(LastReq.res.changes[j])
          /\ LastReq.res.changes[j].id = "n1"
          /\ Usable(LastReq.res.changes[i])
          /\ LastReq.res.changes[i].id = "n2"
    /\ "n2" \in DOMAIN notes /\ "n2" \notin DOMAIN pre.notes
    /\ "n1" \notin DOMAIN notes
\* The greatest of a non-empty set of timestamps
Newest(times) == CHOOSE t \in times : \A u \in times : u <= t

\* The timestamps of the versions of a note the pull has met: the row it had when
\* the pull began and the decryptable changes of its pages
VersionsMet(id) ==
    { c.updated_at : c \in { d \in pulled.changes : d.id = id /\ Usable(d) } }
       \cup (IF id \in DOMAIN pulled.before THEN {pulled.before[id].updated_at} ELSE {})

\* C19: when a pull over several pages has returned successfully, every note the pull
\* has met holds the greatest updated_at among its row before the pull and the
\* decryptable versions of all pages, the row being that earlier row or the stored
\* form of a delivered version, and last_synced_at is the next_cursor of the last
\* page processed.
C19_PagedPullKeepsNewest ==
    (sm.pc = "push_unsynced" /\ pulls >= 2) =>
        /\ \A id \in NoteIds :
              VersionsMet(id) # {} =>
                 /\ id \in DOMAIN notes
                 /\ notes[id].updated_at = Newest(VersionsMet(id))
                 /\ \/ (id \in DOMAIN pulled.before /\ notes[id] = pulled.before[id])
                    \/ \E c \in pulled.changes : c.id = id /\ StoredFrom(notes[id], c)
        /\ get_cursor(kv) = sm.res.next_cursor
\* C20: Logout leaves the token files and the passphrase file absent and the KeyStore
\* empty, changing no row of the notes table or of the kv_store; and as long as the
\* user is logged out (no token) the passphrase file stays absent and the KeyStore
\* stays empty.
C20_Logout ==
    [][/\ (token # "" /\ token' = "") =>
             /\ refresh_token' = ""
             /\ passphrase_file' = None
             /\ crypto_key' = None
             /\ notes' = notes
             /\ kv' = kv
       /\ (token' = "") =>
             (refresh_token' = "" /\ passphrase_file' = None /\ crypto_key' = None)
      ]_vars
----------------------------------------------------------------------------
(* Claims about the controller and the repository *)

\* The four things E2E setup writes
SetupState == <<get_kv(kv, "encryption_salt"), passphrase_file, notes, crypto_key>>

C22_SaltLifetime ==
    [][IsSome(get_kv(kv, "encryption_salt")) =>
          \/ get_kv(kv', "encryption_salt") = get_kv(kv, "encryption_salt")
          \/ /\ get_kv(kv', "encryption_salt") = None
             /\ \/ sm.pc = "free_delete_salt" /\ sm.me.plan \notin {"", "pro", "dev"}
                \/ ui_pc = "ac_free_delete_salt" /\ ui_me.plan \notin {"", "pro", "dev"}
      ]_vars
\* C23: an attempt of the SyncManager whose GET /auth/me named a plan that is none
\* of free, pro, dev goes the way of the free plan: it never reaches Syncing, the
\* pull or the push.
C23_UnknownPlanIsFree ==
    sm.me.plan \notin {"", "free", "pro", "dev"} =>
        /\ sm.pc \notin {"pull_cursor", "check_sync", "pull_changes", "pull_key", "pull_apply",
                         "push_unsynced", "push_key", "push_loop", "push_post", "push_mark"}
        /\ \A i \in 1..Len(emitted) : emitted[i] # "Syncing"
\* C24: a sender of a status event never waits for the Controller: an unlock task
\* that has reached the send of its result can take that step at once, whatever the
\* status channel holds.
C24_StatusNeverBlocks ==
    ul.pc \in {"installed", "failed"} => ENABLED UL_Report
\* C25: a step that sends GET /auth/poll for a login session is never taken after
\* the user has left the Login pane with Esc while that session was being polled.
C25_PollingStopsOnEsc ==
    [][login'.polls # login.polls => Unwrap(login'.polled) \notin login.left]_vars
\* The request the step has just executed, if it executed one
LastRun == IF Len(reply') = Len(reply) + 1 /\ IsSome(pre'.req) THEN pre'.req ELSE None

\* C26: after SaveNote(id?, content, is_encrypted) the row with the returned id has
\* the given content, updated_at = now, is_deleted = 0, is_synced = 0 and the given
\* flag, whatever the row was before; the returned id is the given one, or an id
\* no row had; every other row is as before.
C26_SaveNotePost ==
    [][(IsSome(LastRun) /\ Unwrap(LastRun).cmd = "SaveNote") =>
          LET req == Unwrap(LastRun)
              id == reply'[Len(reply')].val
          IN  /\ reply'[Len(reply')].ok
              /\ id \in DOMAIN notes'
              /\ notes'[id] = Row(req.content, now', 0, 0, IF req.is_encrypted THEN 1 ELSE 0)
              /\ IF IsSome(req.id) THEN id = Unwrap(req.id) ELSE id \notin DOMAIN notes
              /\ DOMAIN notes' = DOMAIN notes \cup {id}
              /\ \A other \in DOMAIN notes \ {id} : notes'[other] = notes[other]
      ]_vars

\* C26 witness: a SaveNote with an id was executed on a row that was a tombstone
\* marked synced, beside another row.
C26_Witness ==
    /\ IsSome(pre.req) /\ Unwrap(pre.req).cmd = "SaveNote"
    /\ IsSome(Unwrap(pre.req).id)
    /\ Unwrap(Unwrap(pre.req).id) \in DOMAIN pre.notes
    /\ pre.notes[Unwrap(Unwrap(pre.req).id)].is_deleted = 1
    /\ pre.notes[Unwrap(Unwrap(pre.req).id)].is_synced = 1
    /\ Cardinality(DOMAIN notes) = 2
    /\ notes[Unwrap(Unwrap(pre.req).id)].is_deleted = 0
\* C27: DeleteNote on an existing note leaves its row with is_deleted = 1 and
\* is_synced = 0, and on an unknown id changes nothing and is Ok; GetNotes returns
\* no row with is_deleted = 1, while GetNote(id) returns the row of the id,
\* tombstone or not, and GetUnsyncedNotes every row with is_synced = 0; a row
\* leaves the table only by ClearAllData.
C27_Tombstones ==
    [][IsSome(LastRun) =>
          LET req == Unwrap(LastRun)
              val == reply'[Len(reply')].val
          IN  /\ req.cmd = "DeleteNote" =>
                    /\ reply'[Len(reply')].ok
                    /\ IF req.id \in DOMAIN notes
                       THEN /\ req.id \in DOMAIN notes'
                            /\ notes'[req.id].is_deleted = 1
                            /\ notes'[req.id].is_synced = 0
                       ELSE notes' = notes
              /\ req.cmd = "GetNotes" =>
                    /\ \A n \in val : n.is_deleted = 0
                    /\ \A id \in DOMAIN notes :
                          notes[id].is_deleted = 0 => \E n \in val : n.id = id
              /\ req.cmd = "GetNote" =>
                    IF req.id \in DOMAIN notes
                    THEN /\ IsSome(val)
                         /\ Unwrap(val).id = req.id
                         /\ Unwrap(val).is_deleted = notes[req.id].is_deleted
                    ELSE val = None
              /\ req.cmd = "GetUnsyncedNotes" =>
                    \A id \in DOMAIN notes :
                        notes[id].is_synced = 0 =>
                            \E n \in val : n.id = id /\ n.is_deleted = notes[id].is_deleted
              /\ req.cmd # "ClearAllData" => DOMAIN notes \subseteq DOMAIN notes'
      ]_vars

\* C27 witness: a note was saved and deleted, and GetUnsyncedNotes has just
\* returned its tombstone, which GetNotes would not list.
C27_Witness ==
    /\ IsSome(pre.req) /\ Unwrap(pre.req).cmd = "GetUnsyncedNotes"
    /\ Len(reply) = MaxRequests
    /\ \E n \in reply[Len(reply)].val :
         /\ n.is_deleted = 1 /\ n.is_synced = 0
         /\ n.id \in DOMAIN notes /\ notes[n.id].is_deleted = 1
         /\ n.content \in Contents
\* The save the step has just executed, if it executed one
LastSave == IF cmds' # cmds /\ cmds' # <<>> /\ "text" \in DOMAIN cmds'[1] THEN cmds' ELSE <<>>

C29_MonotonicLocalWrites ==
    [][(IsSome(LastRun) /\ Unwrap(LastRun).cmd \in {"SaveNote", "DeleteNote"}) =>
          \A id \in DOMAIN notes \cap DOMAIN notes' :
              notes'[id].updated_at >= notes[id].updated_at
      ]_vars
\* The "Clear All Data" the step has just executed, if it executed one
LastClear == IF cmds' # cmds /\ cmds' # <<>> /\ "reset" \in DOMAIN cmds'[1] THEN cmds' ELSE <<>>

\* C30: "Clear All Data" attempts POST /sync/reset exactly when a token exists, and
\* whether the reset succeeded, failed or was not attempted, a local ClearAllData
\* that returned Ok leaves the notes table and kv_store empty: no note is listed
\* and the cursor reads as the default.
C30_ClearAllData ==
    [][LastClear # <<>> =>
          LET c == LastClear[1]
          IN  /\ (c.reset = "none") <=> (token = "")
              /\ c.reset \in {"none", "ok", "failed"}
              /\ c.failAt = 0 =>
                    /\ DOMAIN notes' = {}
                    /\ DOMAIN kv' = {}
                    /\ get_cursor(kv') = 0
      ]_vars

\* C30 witness: with a token, notes and a cursor, the remote reset failed and the
\* local clear ran: both tables are empty and the server still has its salt.
C30_Witness ==
    /\ cmds # <<>> /\ "reset" \in DOMAIN cmds[1]
    /\ cmds[1].reset = "failed" /\ cmds[1].failAt = 0
    /\ token # ""
    /\ DOMAIN notes = {} /\ DOMAIN kv = {}
    /\ IsSome(srv.encryption_salt)

\* C34: when a pulled page has at least one change and none of them is usable
\* (each is marked plaintext or does not open under the key), the writes of the
\* page leave every note as it was and store the page's next_cursor as
\* last_synced_at (a set_kv that fails stores nothing and ends the attempt with
\* Error); when the page has no change, its writes leave notes and kv_store as
\* they were.
C34_UnusablePage ==
    (PulledPage /\ \A i \in 1..Len(LastReq.res.changes) : ~Usable(LastReq.res.changes[i])) =>
        /\ notes = pre.notes
        /\ IF LastReq.res.changes = <<>>
           THEN kv = pre.kv /\ pre.failAt = 0
           ELSE IF pre.failAt = 0
                THEN kv = set_kv(pre.kv, "last_synced_at", LastReq.res.next_cursor)
                ELSE kv = pre.kv /\ sm.pc = "idle" /\ emitted[Len(emitted)] = "Error"

\* C34 witness: a page of one plaintext change and one change under another key
\* moved the cursor forward and wrote no note.
C34_Witness ==
    /\ PulledPage
    /\ Len(LastReq.res.changes) = 2
    /\ LastReq.res.changes[1].is_encrypted = 0
    /\ LastReq.res.changes[2].is_encrypted = 1
    /\ ~Usable(LastReq.res.changes[2])
    /\ pre.failAt = 0
    /\ notes = pre.notes
    /\ get_cursor(kv) = LastReq.res.next_cursor
    /\ get_cursor(kv) > get_cursor(pre.kv)

\* The ids a step marks as synced: rows that go from is_synced = 0 to 1
MarkedBy == { id \in DOMAIN notes \cap DOMAIN notes' :
                notes[id].is_synced = 0 /\ notes'[id].is_synced = 1 }

\* C35: a step of push marks a note as synced only when the last request of the
\* pass was a POST /sync/push for that id which answered 200 and nothing of the
\* pass came between; a step that skips a note (no row, no key, encrypt failed)
\* marks nothing; a failed POST marks nothing and ends the pass, so that no later
\* note of the list is sent or marked.
C35_MarkOnlyAfterAck ==
    [][/\ \A id \in MarkedBy :
             /\ sm.pc = "push_mark"
             /\ IsSome(sent) /\ Unwrap(sent).id = id /\ sent = sm.body
             /\ answer = "ok"
             /\ MarkedBy = {id}
       /\ (sm.pc = "push_loop" /\ sm' # sm) => MarkedBy = {}
       /\ (sm.pc = "push_post" /\ sm' # sm /\ answer' # "ok") =>
             /\ MarkedBy = {}
             /\ sm'.pc = "idle" /\ sm'.unsynced = <<>>
             /\ emitted'[Len(emitted')] \in {"Error", "PaymentRequired"}
      ]_vars

\* C35 witness: the pass has marked the note whose POST answered 200 and has
\* skipped another unsynced note, which is still unsynced at the end of the list.
C35_Witness ==
    /\ sm.pc = "push_loop" /\ sm.unsynced = <<>>
    /\ IsSome(sent) /\ answer = "ok"
    /\ Unwrap(sent).id \in DOMAIN notes
    /\ notes[Unwrap(sent).id].is_synced = 1
    /\ \E id \in DOMAIN notes :
          /\ id # Unwrap(sent).id
          /\ notes[id].is_synced = 0
          /\ notes[id].updated_at < notes[Unwrap(sent).id].updated_at

\* The statuses that end an attempt
Terminal == {"Offline", "Error", "Synced", "PaymentRequired"}

\* The positions of the statuses of the running (or last) attempt that are in `set`
Positions(set) == { i \in 1..Len(emitted) : emitted[i] \in set }

\* C36: the statuses of an attempt are at most one Syncing, first, and exactly one
\* terminal status, last: none while the attempt runs, one when it has returned.
\* Synced is sent only by the step in which push returns Ok, which comes after
\* pull returned Ok.  An attempt begins only when the SyncManager is not in one:
\* at its start, or with a trigger taken after the previous attempt has sent its
\* terminal status.
C36_OneOutcome ==
    /\ [](/\ Cardinality(Positions({"Syncing"})) <= 1
          /\ Positions({"Syncing"}) \subseteq {1}
          /\ \A i \in 1..Len(emitted) : emitted[i] \in Terminal \cup {"Syncing"}
          /\ sm.pc = "idle" => Positions(Terminal) = {Len(emitted)} /\ Len(emitted) >= 1
          /\ sm.pc # "idle" => Positions(Terminal) = {})
    /\ [][/\ (emitted' # emitted /\ emitted' # <<>> /\ emitted'[Len(emitted')] = "Synced") =>
                /\ sm.pc \in {"push_unsynced", "push_loop"}
                /\ sm.pc = "push_loop" => sm.unsynced = <<>>
                /\ emitted = <<"Syncing">>
          /\ ((sm'.pc = "get_me" /\ sm.pc # "get_me") \/ trigger' < trigger) =>
                /\ sm.pc \in {"start", "idle"}
                /\ sm.pc = "idle" =>
                      /\ trigger' = trigger - 1
                      /\ emitted # <<>> /\ emitted[Len(emitted)] \in Terminal
                /\ emitted' \in {<<>>, <<"Offline">>}
         ]_vars

\* C36 witness: an attempt that pushed a note has ended with Syncing, Synced.
C36_Witness ==
    /\ sm.pc = "idle"
    /\ emitted = <<"Syncing", "Synced">>
    /\ acked # {}
    /\ answer = "ok"

\* C40: while the user is logged out and has begun no unlock since (the status is
\* "Disabled", which Logout sets and under which no passphrase pane opens), an
\* unlock task still running was spawned before the Logout: no step of it puts a
\* key into the empty KeyStore, and none writes the passphrase file.
C40_KeyStoreStaysEmpty ==
    [][(token = "" /\ e2e_status = "Disabled" /\ ul.pc # "idle") =>
          /\ crypto_key = None => crypto_key' = None
          /\ passphrase_file = None => passphrase_file' = None
      ]_vars

\* C39: the writes of a page never move last_synced_at when pull took its key
\* snapshot from an empty KeyStore (the gate of the attempt had found a key, and
\* the KeyStore was cleared in between) and the page holds a change marked
\* encrypted, which such a pull cannot try to open.
C39_NoCursorWithoutKey ==
    [][(/\ sm.pc = "pull_apply"
        /\ sm.has_key /\ sm.key_opt = None
        /\ \E i \in 1..Len(sm.res.changes) : sm.res.changes[i].is_encrypted = 1)
       => get_cursor(kv') = get_cursor(kv)
      ]_vars

\* C32: decrypt of what encrypt returned for a string, under the key it was sealed
\* with, succeeds and returns that string; decrypt of a Base64 payload of fewer
\* than NONCE_LEN bytes fails as too short, before the AEAD is tried.
C32_RoundTrip ==
    /\ cx.pc = "opened" => cx.out = Done(cx.content)
    /\ (cx.pc = "foreign" /\ Len(cx.raw) < NONCE_LEN) => cx.out = Fail("short")

\* C32 witness: a string with a two-byte code point came back from the round trip.
C32_Witness ==
    /\ cx.pc = "opened"
    /\ cx.out.ok
    /\ Len(cx.content) = MaxChars
    /\ \E i \in 1..Len(cx.content) : cx.content[i] >= 128
    /\ Len(cx.payload) > 4 * ((NONCE_LEN + TAG_LEN + Len(cx.content)) \div 3)

\* The tables after the requests reqs[1..n], executed one after the other
RECURSIVE Serial(_, _, _)
Serial(db, reqs, n) ==
    IF n = 0 THEN db
    ELSE LET before == Serial(db, reqs, n - 1)
         IN  IF reqs[n].cmd = "MarkAsSynced"
             THEN [before EXCEPT !.notes = mark_as_synced(before.notes, reqs[n].id)]
             ELSE IF reqs[n].cmd = "SetKV"
             THEN [before EXCEPT !.kv = set_kv(before.kv, reqs[n].key, reqs[n].value)]
             ELSE IF reqs[n].cmd = "ClearAllData"
             THEN [notes |-> EmptyTable, kv |-> EmptyTable]
             ELSE pull_upsert_notes(before, reqs[n].notes, reqs[n].cursor, 0).db

\* C33: the actor has executed exactly the requests sent first, in the order of
\* their sends, and the queue holds the others in that order: none is skipped or
\* overtaken, whether or not its caller still awaits; the tables are what those
\* requests give when executed one after the other from the tables of the start.
C33_Serialized ==
    /\ Len(reply) + Len(rx) = Len(cmds)
    /\ \A i \in 1..Len(reply) : reply[i].seq = i /\ reply[i].ok
    /\ \A i \in 1..Len(rx) : rx[i].seq = Len(reply) + i /\ rx[i].req = cmds[rx[i].seq]
    /\ [notes |-> notes, kv |-> kv] = Serial(ActorDb, cmds, Len(reply))

\* C33 witness: the first request, a pull whose caller had stopped waiting, was
\* executed and its reply dropped; the actor went on and answered the request
\* sent after it, which found the pulled row.
C33_Witness ==
    /\ Len(reply) >= 2
    /\ cmds[1].cmd = "PullUpsertNotes" /\ ~reply[1].delivered
    /\ cmds[2].cmd = "SetKV" /\ reply[2].delivered
    /\ "n1" \in DOMAIN notes /\ notes["n1"].content = "b"
    /\ get_cursor(kv) = MaxTime

\* The text is that of a file that exists and does not give an AppConfig
Corrupt(file) == file # <<>> /\ ~(read_to_string(file[1]).ok /\ from_str(file[1]).ok)

\* C31: a load_config that finds a config.toml which does not give an AppConfig
\* returns the default configuration and leaves the text it found in
\* config.toml.bak and no config.toml (an error of fs::rename itself set aside);
\* after a set_offline_mode(v) that returned Ok, config.toml exists, parses, and
\* has offline_mode = v.
C31_CorruptRecovery ==
    /\ (cfg.last.op = "load_config" /\ Corrupt(cfg.last.found)) =>
          /\ cfg.last.out = <<DefaultConfig>>
          /\ cfg.last.ok
          /\ cfg.last.renamed # "failed" => (cfg.bak = cfg.last.found /\ cfg.file = <<>>)
    /\ (cfg.last.op = "set_offline_mode" /\ cfg.last.ok) =>
          /\ cfg.file # <<>>
          /\ read_to_string(cfg.file[1]).ok
          /\ from_str(cfg.file[1]).ok
          /\ from_str(cfg.file[1]).val.offline_mode = cfg.last.offline

\* C37: when the Controller has made its trigger attempt after a SaveNote or a
\* DeleteNote, a trigger is pending, whether try_send stored it or dropped it
\* because one was pending already; a pending trigger leaves the channel only
\* in the step that begins a sync attempt; and, the SyncManager being scheduled
\* and its attempts ending, every pending trigger is taken.  So an attempt begins
\* after the mutation was committed.
C37_TriggerNotLost ==
    /\ [][(ui_pc = "trigger" /\ ui_pc' # "trigger") => trigger' = 1]_vars
    /\ [][trigger' < trigger =>
             /\ sm.pc = "idle"
             /\ emitted # <<>> /\ emitted[Len(emitted)] \in Terminal
             /\ emitted' \in {<<>>, <<"Offline">>}
             /\ notes' = notes]_vars
    /\ (trigger = 1) ~> (trigger = 0)
    /\ (ui_pc = "trigger") ~> (ui_pc = "idle" /\ trigger = 1)

\* C37 witness: a note was saved while an attempt was in its push with a list
\* that does not have the note; the try_send has stored a trigger that waits for
\* the attempt to end.
C37_Witness ==
    /\ trigger = 1
    /\ ui_pc = "idle"
    /\ sm.pc = "push_post"
    /\ \E id \in DOMAIN notes :
          /\ notes[id].is_synced = 0
          /\ notes[id].updated_at = now
          /\ \A i \in 1..Len(sm.unsynced) : sm.unsynced[i].id # id
----------------------------------------------------------------------------
(* Specification SpecChannels: the two bounded channels between the controller
   and the SyncManager.  The program has no token; the user asks for syncs from
   the status dialog and logs in.  In this specification `emitted` holds the
   status the SyncManager has handed to status_tx.send(..).await and the channel
   has not taken yet; the SyncManager goes on only after the send completed.
   The controller reads status_rx in one branch of its select!, which may lose
   against the other branches any number of times. *)

\* status_tx.send(status).await of the SyncManager: completes when status_rx holds
\* fewer than STATUS_CAPACITY events, and waits otherwise
SM_StatusSent ==
    /\ emitted # <<>>
    /\ Len(inbox) < STATUS_CAPACITY
    /\ inbox' = Append(inbox, Head(emitted))
    /\ emitted' = Tail(emitted)
    /\ UNCHANGED <<notes, kv, rx, reply, pre, crypto_key, passphrase_file, token, srv,
                   sm, trigger, now, ui_pc, e2e_status, sent, acked, ul, ui_me, answer,
                   http, refresh_token, pulls, pulled, e2e, login, cmds, cx, cfg>>

ChannelsNext ==
    \/ emitted = <<>> /\ SM_TrySync
    \/ emitted = <<>> /\ SM_GetMe({FALSE, TRUE})
    \/ emitted = <<>> /\ SM_FreeGetSalt
    \/ emitted = <<>> /\ SM_FreeDeleteSalt
    \/ emitted = <<>> /\ SM_FreeDeletePassphrase
    \/ emitted = <<>> /\ SM_FreeClearKey
    \/ emitted = <<>> /\ SM_HasKey
    \/ emitted = <<>> /\ SM_GetSalt
    \/ emitted = <<>> /\ SM_SetSalt
    \/ SM_StatusSent
    \/ UI_OnUnlockStatus
    \/ login.active_pane = "List" /\ UI_SyncNow
    \/ UI_Trigger
    \/ LG_Open({FALSE})
    \/ LG_PollingTick({"pending", "success"}, {FALSE, TRUE})
    \/ LG_Trigger

SpecChannels == LoginInit /\ [][ChannelsNext]_vars

\* C38: in no reachable state does the controller wait in the awaited trigger send
\* of poll_login with the trigger channel full while the SyncManager waits in a
\* status send with the status channel full.
C38_NoDeadlock ==
    ~ (/\ ui_pc = "pl_trigger"
       /\ trigger = 1
       /\ emitted # <<>>
       /\ Len(inbox) = STATUS_CAPACITY)
====
